---- MODULE Spec2Model ----
(***************************************************************************)
(* adl2gestalt: the lowering engine of src/adl2gestalt/converter.py        *)
(* (MedmToGestaltConverter).                                               *)
(*                                                                         *)
(* Text is modelled structurally.  A Python string that the code edits     *)
(* character by character (a calc expression) is a sequence of one-        *)
(* character strings; an emitted line is a record naming its indent, its   *)
(* key and the parts that the f-string puts into it.                       *)
(***************************************************************************)
EXTENDS Integers, Sequences, FiniteSets, TLC

VARIABLES
    color_map,          \* self.color_map: palette index -> color token
    color_aliases,      \* self.color_aliases: alias name -> hex literal
    calc_nodes,         \* self.calc_nodes: the accumulated computed-visibility nodes
    has_calc_nodes,     \* hasattr(self, "calc_nodes")
    calc_node_counter,  \* self.calc_node_counter
    display_width,      \* getattr(self, "display_width", 437)
    display_height,     \* getattr(self, "display_height", 274)
    pc,                 \* where convert_file is: "ready" | "parsed" | "converted"
    medm,               \* convert_file's medm: the parsed document object
    output,             \* convert_file's gestalt_content: what convert_display returned
    diagnostics,        \* the records logged while the document was lowered
    medm_expression,    \* the argument of convert_medm_to_python
    python_expr,        \* its result
    recompiled,         \* the result compiled once more
    expr_stage,         \* "input" | "compiled" | "recompiled"
    lookup_color,       \* the color argument of get_color_reference
    lookup_result,      \* what get_color_reference returned
    rebase_child,       \* child.geometry, absolute, as a Group finds it
    rebase_origin,      \* group_x, group_y
    rebase_relative,    \* the Geometry made of child.geometry and the origin
    rebase_restored,    \* rebase_relative re-based by the negated origin
    runner_env,         \* gestalt_runner: the files and the gestalt tool it finds
    runner_call,        \* gestalt_runner: the function that was called last
    runner_results      \* gestalt_runner: what that function returned

vars == <<color_map, color_aliases, calc_nodes, has_calc_nodes, calc_node_counter,
          display_width, display_height, pc, medm, output, diagnostics,
          medm_expression, python_expr, recompiled, expr_stage,
          lookup_color, lookup_result,
          rebase_child, rebase_origin, rebase_relative, rebase_restored,
          runner_env, runner_call, runner_results>>

converter_vars == <<color_map, color_aliases, calc_nodes, has_calc_nodes,
                    calc_node_counter, display_width, display_height, pc, medm, output,
                    diagnostics>>

expr_vars == <<medm_expression, python_expr, recompiled, expr_stage>>

lookup_vars == <<lookup_color, lookup_result>>

rebase_vars == <<rebase_child, rebase_origin, rebase_relative, rebase_restored>>

runner_vars == <<runner_env, runner_call, runner_results>>

----------------------------------------------------------------------------
(* Bounds of the model.                                                    *)

\* Longest expression, in tokens, that the expression compiler is given.
MaxTokens == 3

\* Cap on the computed-visibility nodes one converter instance accumulates.
MaxCalcNodes == 2

\* Longest color table, of any colors, that the color resolver is given.
MaxColors == 2

\* Largest coordinate, in steps of CoordinateStep, of a geometry or an origin that
\* is re-based on its own.
MaxCoordinate == 2

----------------------------------------------------------------------------
(* Python strings as sequences of characters.                              *)

\* Python's None where a str is expected: no character, so no pattern matches it.
PyNone == <<"<None>">>

RECURSIVE Concat(_)
\* "".join(parts)
Concat(parts) ==
    IF parts = <<>> THEN <<>> ELSE Head(parts) \o Concat(Tail(parts))

\* s.startswith(old)
StartsWith(s, old) ==
    /\ Len(s) >= Len(old)
    /\ SubSeq(s, 1, Len(old)) = old

RECURSIVE Replace(_, _, _)
\* str.replace(old, new): every non-overlapping occurrence, leftmost first.
Replace(s, old, new) ==
    IF Len(s) < Len(old) THEN s
    ELSE IF StartsWith(s, old)
         THEN new \o Replace(SubSeq(s, Len(old) + 1, Len(s)), old, new)
         ELSE <<Head(s)>> \o Replace(Tail(s), old, new)

\* Whether old occurs in s.
Contains(s, old) ==
    \E i \in 1..(Len(s) - Len(old) + 1) : SubSeq(s, i, i + Len(old) - 1) = old

----------------------------------------------------------------------------
(* convert_medm_to_python                                                  *)

NE_PLACEHOLDER == <<"_", "_", "_", "N", "E", "_", "_", "_">>
PY_NE  == <<"!", "=">>
PY_EQ  == <<"=", "=">>
PY_NOT == <<" ", "n", "o", "t", " ">>
PY_AND == <<" ", "a", "n", "d", " ">>
PY_OR  == <<" ", "o", "r", " ">>

MATH == <<"m", "a", "t", "h", ".">>

\* function_mappings, in the dict's insertion order.
function_mappings ==
    << << <<"A","B","S">>,         <<"a","b","s">> >>,
       << <<"S","Q","R">>,         MATH \o <<"s","q","r","t">> >>,
       << <<"M","I","N">>,         <<"m","i","n">> >>,
       << <<"M","A","X">>,         <<"m","a","x">> >>,
       << <<"C","E","I","L">>,     MATH \o <<"c","e","i","l">> >>,
       << <<"F","L","O","O","R">>, MATH \o <<"f","l","o","o","r">> >>,
       << <<"L","O","G">>,         MATH \o <<"l","o","g","1","0">> >>,
       << <<"L","O","G","E">>,     MATH \o <<"l","o","g">> >>,
       << <<"E","X","P">>,         MATH \o <<"e","x","p">> >>,
       << <<"S","I","N">>,         MATH \o <<"s","i","n">> >>,
       << <<"S","I","N","H">>,     MATH \o <<"s","i","n","h">> >>,
       << <<"A","S","I","N">>,     MATH \o <<"a","s","i","n">> >>,
       << <<"C","O","S">>,         MATH \o <<"c","o","s">> >>,
       << <<"C","O","S","H">>,     MATH \o <<"c","o","s","h">> >>,
       << <<"A","C","O","S">>,     MATH \o <<"a","c","o","s">> >>,
       << <<"T","A","N">>,         MATH \o <<"t","a","n">> >>,
       << <<"T","A","N","H">>,     MATH \o <<"t","a","n","h">> >>,
       << <<"A","T","A","N">>,     MATH \o <<"a","t","a","n">> >> >>

RECURSIVE ReplaceFunctions(_, _)
\* for medm_func, python_func in function_mappings.items(): replace, in order.
ReplaceFunctions(s, mappings) ==
    IF mappings = <<>> THEN s
    ELSE ReplaceFunctions(Replace(s, Head(mappings)[1], Head(mappings)[2]),
                          Tail(mappings))

\* Mutant: the not-equal placeholder step is left out.
RewriteOperatorsNoPlaceholder(s) ==
    LET a == Replace(s, <<"#">>, PY_NE)
        c == Replace(a, <<"=">>, PY_EQ)
        d == Replace(c, <<" ", "!">>, PY_NOT)
        e == Replace(d, <<"!", " ">>, PY_NOT)
        f == Replace(e, <<"!">>, PY_NOT)
        h == Replace(f, <<"&", "&">>, PY_AND)
    IN  Replace(h, <<"|", "|">>, PY_OR)

\* The operator rewrites of convert_medm_to_python, in the code's order.
RewriteOperators(s) ==
    LET a == Replace(s, <<"#">>, PY_NE)
        b == Replace(a, PY_NE, NE_PLACEHOLDER)
        c == Replace(b, <<"=">>, PY_EQ)
        d == Replace(c, <<" ", "!">>, PY_NOT)
        e == Replace(d, <<"!", " ">>, PY_NOT)
        f == Replace(e, <<"!">>, PY_NOT)
        g == Replace(f, NE_PLACEHOLDER, PY_NE)
        h == Replace(g, <<"&", "&">>, PY_AND)
    IN  Replace(h, <<"|", "|">>, PY_OR)

convert_medm_to_python(expression) ==
    IF expression = PyNone \/ expression = <<>>
    THEN expression
    ELSE ReplaceFunctions(RewriteOperators(expression), function_mappings)

----------------------------------------------------------------------------
(* The expressions the compiler is given.                                  *)

LParen == <<"(">>
RParen == <<")">>

\* Tokens of the legacy syntax.
LegacyTokens ==
    { <<"A">>, <<"B">>, <<"C">>, <<"0">>, <<" ">>,
      <<"#">>, <<"=">>, <<"&", "&">>, <<"|", "|">>, <<"!">>, <<"!", "=">> }

\* Tokens of the target syntax: nothing of the legacy syntax is among them.
TargetTokens ==
    { <<"A">>, <<"B">>, <<"0">>, LParen, RParen,
      PY_NE, PY_EQ, PY_AND, PY_OR, PY_NOT,
      MATH \o <<"s","q","r","t">>, <<"a","b","s">> }

\* Tokens with the relational operators.
RelationalTokens ==
    { <<"A">>, <<"B">>, <<">">>, <<"<">>, <<">", "=">>, <<"<", "=">>, <<"=">> }

TokenSeqs(tokens) == UNION { [1..n -> tokens] : n \in 0..MaxTokens }

LegacyExprs == { Concat(ts) : ts \in TokenSeqs(LegacyTokens) }
TargetExprs == { Concat(ts) : ts \in TokenSeqs(TargetTokens) }
RelationalExprs == { Concat(ts) : ts \in TokenSeqs(RelationalTokens) }

\* "F(X)" for every legacy function name F and operand X.
Call(f, x) == f \o LParen \o x \o RParen
FunctionIndex == 1..Len(function_mappings)
FunctionExprs ==
    { Call(function_mappings[i][1], x) : i \in FunctionIndex, x \in {<<"A">>, <<"B">>} }

\* The expressions of the documented examples.
ExampleExprs ==
    { <<"A", "#", "B">>, <<"A", "=", "B", "&", "&", "C">>, <<"!", "A">>,
      <<"S", "Q", "R", "(", "A", ")">>, <<"A", "#", "0">> }

Expressions ==
    LegacyExprs \cup TargetExprs \cup RelationalExprs \cup FunctionExprs
    \cup ExampleExprs \cup {PyNone}

----------------------------------------------------------------------------
(* Values of the parsed document.                                          *)

\* Python's None where an object is expected.
None == [none |-> TRUE]

Geometry(x, y, width, height) == [x |-> x, y |-> y, width |-> width, height |-> height]

\* A Color of the color table.
Color(r, g, b) == [r |-> r, g |-> g, b |-> b]

\* A color given as an index into the color table.
ColorIndex(i) == [index |-> i]

\* A color given as a str.
ColorText(s) == [str |-> s]

\* A color given as a list.
ColorList(l) == [list |-> l]

\* bool(color): a Color tuple is true, an index is true unless it is 0.
ColorTruthy(color) ==
    /\ color /= None
    /\ ("index" \in DOMAIN color => color.index /= 0)

\* A widget of the parsed tree.
Widget(symbol, title, geometry, color, background_color, contents, widgets) ==
    [symbol |-> symbol, title |-> title, geometry |-> geometry, color |-> color,
     background_color |-> background_color, contents |-> contents, widgets |-> widgets]

\* WIDGET_TYPE_MAP
WIDGET_TYPE_MAP ==
    [s \in {"arc", "image", "line", "oval", "polygon", "polyline", "rectangle", "text",
            "bar", "byte", "cartesian plot", "meter", "scale", "strip chart",
            "text update", "indicator", "choice button", "menu", "message button",
            "related display", "shell command", "slider", "valuator", "text entry",
            "wheel switch", "composite", "embedded display"} |->
        CASE s = "arc" -> "Arc"
          [] s = "image" -> "Image"
          [] s = "line" -> "Polyline"
          [] s = "oval" -> "Ellipse"
          [] s = "polygon" -> "Polygon"
          [] s = "polyline" -> "Polyline"
          [] s = "rectangle" -> "Rectangle"
          [] s = "text" -> "Text"
          [] s = "bar" -> "Scale"
          [] s = "byte" -> "ByteMonitor"
          [] s = "cartesian plot" -> "XYPlot"
          [] s = "meter" -> "Meter"
          [] s = "scale" -> "Scale"
          [] s = "strip chart" -> "StripChart"
          [] s = "text update" -> "TextMonitor"
          [] s = "indicator" -> "LED"
          [] s = "choice button" -> "ChoiceButton"
          [] s = "menu" -> "Menu"
          [] s = "message button" -> "MessageButton"
          [] s = "related display" -> "RelatedDisplay"
          [] s = "shell command" -> "ShellCommand"
          [] s = "slider" -> "Slider"
          [] s = "valuator" -> "Slider"
          [] s = "text entry" -> "TextEntry"
          [] s = "wheel switch" -> "WheelSwitch"
          [] s = "composite" -> "Group"
          [] s = "embedded display" -> "Embed"]

----------------------------------------------------------------------------
(* Emitted lines.                                                          *)

\* "<name>: !<tag>"
Block(name, tag) == [kind |-> "block", indent |-> 0, name |-> name, tag |-> tag]

\* "    <key>: <val>"; val holds the parts the f-string is made of.
Prop(key, val) == [kind |-> "prop", indent |-> 4, key |-> key, val |-> val]

Blank == [kind |-> "blank", indent |-> 0]

Include(file) == [kind |-> "include", indent |-> 0, file |-> file]

Comment(text) == [kind |-> "comment", indent |-> 0, text |-> text]

\* "<alias>: &<alias[1:]> <color>"
AliasDef(alias, color) == [kind |-> "alias", indent |-> 0, alias |-> alias, color |-> color]

\* f"        {line}" for every line of a child.
IndentLines(child_lines) ==
    [k \in 1..Len(child_lines) |-> [child_lines[k] EXCEPT !.indent = @ + 8]]

----------------------------------------------------------------------------
(* Color Resolver: build_color_map, get_color_reference                    *)

standard_colors ==
    { Color(255, 255, 255), Color(0, 0, 0), Color(255, 0, 0), Color(0, 255, 0),
      Color(0, 0, 255), Color(255, 255, 0), Color(0, 255, 255), Color(255, 0, 255),
      Color(128, 128, 128), Color(192, 192, 192) }

HexDigits == <<"0", "1", "2", "3", "4", "5", "6", "7", "8", "9",
               "a", "b", "c", "d", "e", "f">>

RECURSIVE Hex(_)
\* format(n, "x") for n >= 0
Hex(n) == IF n < 16 THEN <<HexDigits[n + 1]>> ELSE Hex(n \div 16) \o <<HexDigits[(n % 16) + 1]>>

\* format(n, "02x") for n >= 0: at least two digits, padded with 0.
Hex02(n) == IF n < 16 THEN <<"0">> \o Hex(n) ELSE Hex(n)

\* f"${color.r:02x}{color.g:02x}{color.b:02x}"
ColorHex(color) ==
    [form |-> "hex", text |-> <<"$">> \o Hex02(color.r) \o Hex02(color.g) \o Hex02(color.b)]

\* Mutant: one name for every alias.
AliasNameShared(i) == <<"medm_color_", 0>>

\* f"medm_color_{i}"
AliasName(i) == <<"medm_color_", i>>

\* f"*{alias_name}"
AliasRef(i) == [form |-> "alias", name |-> AliasName(i)]

BLACK == [form |-> "hex", text |-> <<"$", "0", "0", "0", "0", "0", "0">>]

\* The indices of a table, as enumerate() numbers them.
TableIndices(color_table) == 0..(Len(color_table) - 1)

\* Mutant: the maps of the previous document are kept and written over.
build_color_map_keep(self, color_table) ==
    LET idx == TableIndices(color_table)
        custom == { i \in idx : color_table[i + 1] \notin standard_colors }
        old_map == self.color_map
        old_aliases == self.color_aliases
    IN  [self EXCEPT
            !.color_map =
                [i \in idx \cup DOMAIN old_map |->
                    IF i \in idx
                    THEN IF i \in custom THEN AliasRef(i) ELSE ColorHex(color_table[i + 1])
                    ELSE old_map[i]],
            !.color_aliases =
                [i \in custom \cup DOMAIN old_aliases |->
                    IF i \in custom THEN ColorHex(color_table[i + 1]) ELSE old_aliases[i]]]

\* Mutant: every index gets an alias, the well-known colors too.
build_color_map_alias_all(self, color_table) ==
    LET idx == TableIndices(color_table)
    IN  [self EXCEPT
            !.color_map = [i \in idx |-> AliasRef(i)],
            !.color_aliases = [i \in idx |-> ColorHex(color_table[i + 1])]]

\* build_color_map: color_map and color_aliases start empty; color_aliases is keyed
\* by the index i of its key f"_medm_color_{i}".
build_color_map(self, color_table) ==
    LET idx == TableIndices(color_table)
        custom == { i \in idx : color_table[i + 1] \notin standard_colors }
    IN  [self EXCEPT
            !.color_map =
                [i \in idx |->
                    IF i \in custom THEN AliasRef(i) ELSE ColorHex(color_table[i + 1])],
            !.color_aliases = [i \in custom |-> ColorHex(color_table[i + 1])]]

\* color_table.index(color): the first index holding the color; -1 for ValueError.
TableIndex(color_table, color) ==
    IF \E i \in TableIndices(color_table) : color_table[i + 1] = color
    THEN CHOOSE i \in TableIndices(color_table) :
            /\ color_table[i + 1] = color
            /\ \A j \in TableIndices(color_table) : color_table[j + 1] = color => i <= j
    ELSE -1

\* int(color) raises: the ValueError of a str that spells no number, the TypeError
\* of a list.
IntRaises(color) ==
    /\ "index" \notin DOMAIN color
    /\ ~("str" \in DOMAIN color /\ color.str \in {"0", "1", "2", "3"})

\* int(color) where it does not raise: the int itself, the number a str spells.
IntOf(color) ==
    IF "index" \in DOMAIN color THEN color.index
    ELSE CASE color.str = "0" -> 0 [] color.str = "1" -> 1
           [] color.str = "2" -> 2 [] color.str = "3" -> 3

\* Mutant: a color that cannot be resolved is reported, not replaced.
get_color_reference_strict(self, color, color_table) ==
    IF color = None THEN None
    ELSE IF "r" \notin DOMAIN color /\ IntRaises(color)
    THEN [raised |-> "unresolved color"]
    ELSE LET color_index == IF "r" \in DOMAIN color
                            THEN TableIndex(color_table, color)
                            ELSE IntOf(color)
         IN  IF color_index \in DOMAIN self.color_map
             THEN self.color_map[color_index]
             ELSE [raised |-> "unresolved color"]

\* get_color_reference: the except clause turns the exceptions (-1 stands for the
\* ValueError of list.index) into "$000000", as dict.get does a missing key.
get_color_reference(self, color, color_table) ==
    IF color = None THEN None
    ELSE IF "r" \notin DOMAIN color /\ IntRaises(color)
    THEN BLACK
    ELSE LET color_index == IF "r" \in DOMAIN color
                            THEN TableIndex(color_table, color)
                            ELSE IntOf(color)
         IN  IF color_index \in DOMAIN self.color_map
             THEN self.color_map[color_index]
             ELSE BLACK

----------------------------------------------------------------------------
(* Widget Lowering Dispatcher: convert_widget_to_lines and                 *)
(* add_widget_properties_lines.  The converter instance is threaded        *)
(* through as the record self; a call returns the lines, the instance and  *)
(* the widget object as the call leaves them.                              *)

\* logger.info(f"Skipping widget outside display area: {symbol} at {x},{y}")
SkippedOutside(widget) ==
    [level |-> "info", text |-> "Skipping widget outside display area",
     symbol |-> widget.symbol, at |-> <<widget.geometry.x, widget.geometry.y>>]

\* logger.warning(f"Widget type '{symbol}' has no match in Gestalt - skipping")
NoMatch(widget) ==
    [level |-> "warning", text |-> "has no match in Gestalt - skipping",
     symbol |-> widget.symbol]

\* The four comparisons of the out-of-display test.
OutsideDisplay(geometry, width, height) ==
    \/ geometry.x + geometry.width < 0
    \/ geometry.x > width
    \/ geometry.y + geometry.height < 0
    \/ geometry.y > height

\* widget.symbol.replace(' ', '_'), on the symbols of WIDGET_TYPE_MAP.
SymbolName(symbol) ==
    CASE symbol = "cartesian plot" -> "cartesian_plot"
      [] symbol = "strip chart" -> "strip_chart"
      [] symbol = "text update" -> "text_update"
      [] symbol = "choice button" -> "choice_button"
      [] symbol = "message button" -> "message_button"
      [] symbol = "related display" -> "related_display"
      [] symbol = "shell command" -> "shell_command"
      [] symbol = "text entry" -> "text_entry"
      [] symbol = "wheel switch" -> "wheel_switch"
      [] symbol = "embedded display" -> "embedded_display"
      [] OTHER -> symbol

\* f"{...}_{index}": the title when there is one, else the symbol.
WidgetName(widget, index) ==
    IF widget.title /= ""
    THEN <<widget.title, "_", index>>
    ELSE <<SymbolName(widget.symbol), "_", index>>

shapes == {"Arc", "Ellipse", "Rectangle", "Polygon"}

\* The geometry line.
GeometryLines(widget) ==
    IF widget.geometry /= None
    THEN LET geom == widget.geometry
         IN  <<Prop("geometry", <<geom.x, geom.y, geom.width, geom.height>>)>>
    ELSE <<>>

\* The color lines of convert_widget_to_lines.
ColorLines(self, widget, widget_type, color_table) ==
    LET fg == IF ColorTruthy(widget.color)
              THEN LET fg_color == get_color_reference(self, widget.color, color_table)
                   IN  IF fg_color /= None /\ widget_type \notin shapes
                       THEN IF widget_type = "Polyline"
                            THEN <<Prop("border-color", fg_color)>>
                            ELSE <<Prop("foreground", fg_color)>>
                       ELSE <<>>
              ELSE <<>>
        bg == IF ColorTruthy(widget.background_color)
              THEN LET bg_color ==
                           get_color_reference(self, widget.background_color, color_table)
                   IN  IF bg_color /= None /\ widget_type \notin shapes
                       THEN <<Prop("background", bg_color)>>
                       ELSE <<>>
              ELSE <<>>
    IN  fg \o bg

\* Keys of a dict.
Has(dict, key) == key \in DOMAIN dict

\* The pv lines of the control and monitor sub-records.
PvLines(contents) ==
    (IF Has(contents, "control") /\ Has(contents["control"], "chan")
     THEN <<Prop("pv", <<contents["control"]["chan"]>>)>> ELSE <<>>)
    \o
    (IF Has(contents, "monitor") /\ Has(contents["monitor"], "chan")
     THEN <<Prop("pv", <<contents["monitor"]["chan"]>>)>> ELSE <<>>)

\* The text line of a Text widget.
TextLines(widget, widget_type) ==
    IF widget_type = "Text" THEN <<Prop("text", <<widget.title>>)>> ELSE <<>>

\* format_map.get(fmt, "Decimal")
FormatName(fmt) ==
    CASE fmt = "decimal" -> "Decimal"
      [] fmt = "exponential" -> "Exponential"
      [] fmt = "engr. notation" -> "Engineering"
      [] fmt = "compact" -> "Compact"
      [] fmt = "hexadecimal" -> "Hexadecimal"
      [] fmt = "string" -> "String"
      [] fmt = "binary" -> "Binary"
      [] OTHER -> "Decimal"

\* align_map.get(align, "Left")
AlignName(align) ==
    CASE align = "horiz. left" -> "Left"
      [] align = "horiz. centered" -> "Center"
      [] align = "horiz. right" -> "Right"
      [] OTHER -> "Left"

\* The format and alignment lines of TextEntry and TextMonitor.
FormatLines(widget_type, contents) ==
    IF widget_type \in {"TextEntry", "TextMonitor"}
    THEN (IF Has(contents, "format")
          THEN <<Prop("format", <<FormatName(contents["format"])>>)>> ELSE <<>>)
         \o
         (IF Has(contents, "align")
          THEN <<Prop("alignment", <<AlignName(contents["align"])>>)>> ELSE <<>>)
    ELSE <<>>

\* The orientation line of Scale and Slider.
DirectionLines(widget_type, contents) ==
    IF widget_type \in {"Scale", "Slider"}
    THEN IF Has(contents, "direction") /\ contents["direction"] \in {"up", "down"}
         THEN <<Prop("horizontal", <<"false">>)>>
         ELSE <<Prop("horizontal", <<"true">>)>>
    ELSE <<>>

\* The label and press value of a MessageButton.
MessageButtonLines(widget_type, contents) ==
    IF widget_type = "MessageButton"
    THEN (IF Has(contents, "label")
          THEN <<Prop("text", <<contents["label"]>>)>> ELSE <<>>)
         \o
         (IF Has(contents, "press_msg")
          THEN <<Prop("value", <<contents["press_msg"]>>)>> ELSE <<>>)
    ELSE <<>>

\* "        - { label: ..., file: ..., macros: ... }"
LinkItem(label, file, macros) ==
    [kind |-> "item", indent |-> 8, label |-> label, file |-> file, macros |-> macros]

\* "        - { label: ..., command: ... }"
CommandItem(label, command) ==
    [kind |-> "item", indent |-> 8, label |-> label, command |-> command]

\* clean_medm_label: label[1:] when the label starts with "-".
clean_medm_label(label) ==
    IF label /= <<>> /\ Head(label) = "-" THEN Tail(label) ELSE label

RECURSIVE Links(_)
\* One record for every display that has a name.
Links(displays) ==
    IF displays = <<>> THEN <<>>
    ELSE LET display == Head(displays)
         IN  (IF Has(display, "name")
              THEN <<LinkItem(clean_medm_label(IF Has(display, "label")
                                               THEN display["label"] ELSE display["name"]),
                              display["name"],
                              IF Has(display, "args") THEN display["args"] ELSE <<>>)>>
              ELSE <<>>)
             \o Links(Tail(displays))

\* The label and the links of a RelatedDisplay.
RelatedDisplayLines(widget, widget_type, contents) ==
    IF widget_type = "RelatedDisplay" /\ "displays" \in DOMAIN widget
    THEN (IF Has(contents, "label")
          THEN <<Prop("text", <<clean_medm_label(contents["label"])>>)>> ELSE <<>>)
         \o
         (IF widget.displays /= <<>>
          THEN <<Prop("links", <<>>)>> \o Links(widget.displays) ELSE <<>>)
    ELSE <<>>

RECURSIVE Commands(_)
\* One record for every command that has a name.
Commands(commands) ==
    IF commands = <<>> THEN <<>>
    ELSE LET cmd == Head(commands)
         IN  (IF Has(cmd, "name")
              THEN <<CommandItem(IF Has(cmd, "label") THEN cmd["label"]
                                 ELSE <<"C", "o", "m", "m", "a", "n", "d">>,
                                 cmd["name"])>>
              ELSE <<>>)
             \o Commands(Tail(commands))

\* The label and the commands of a ShellCommand.
ShellCommandLines(widget, widget_type, contents) ==
    IF widget_type = "ShellCommand" /\ "commands" \in DOMAIN widget
    THEN (IF Has(contents, "label")
          THEN <<Prop("text", <<contents["label"]>>)>> ELSE <<>>)
         \o
         (IF widget.commands /= <<>>
          THEN <<Prop("commands", <<>>)>> \o Commands(widget.commands) ELSE <<>>)
    ELSE <<>>

\* A point of a Polyline or Polygon.
Point(x, y) == [x |-> x, y |-> y]

\* The points line: every point minus the x, y of widget.geometry as it is during
\* the call.
PointsLines(widget, widget_type) ==
    IF widget_type \in {"Polyline", "Polygon"}
       /\ "points" \in DOMAIN widget
       /\ widget.points /= <<>>
    THEN LET widget_x == IF widget.geometry /= None THEN widget.geometry.x ELSE 0
             widget_y == IF widget.geometry /= None THEN widget.geometry.y ELSE 0
         IN  <<Prop("points",
                    [k \in 1..Len(widget.points) |->
                        <<widget.points[k].x - widget_x, widget.points[k].y - widget_y>>])>>
    ELSE <<>>

\* The second border-color of a Polyline.
PolylineLines(self, widget, widget_type, color_table) ==
    IF widget_type = "Polyline" /\ ColorTruthy(widget.color)
    THEN LET fg_color == get_color_reference(self, widget.color, color_table)
         IN  IF fg_color /= None THEN <<Prop("border-color", fg_color)>> ELSE <<>>
    ELSE <<>>

\* Fill and border of the closed shapes.
ClosedShapeLines(self, widget, widget_type, contents, color_table) ==
    IF widget_type \in shapes /\ ColorTruthy(widget.color)
    THEN LET fg_color == get_color_reference(self, widget.color, color_table)
             is_outlined ==
                 /\ Has(contents, "basic attribute")
                 /\ Has(contents["basic attribute"], "fill")
                 /\ contents["basic attribute"]["fill"] = "outline"
         IN  IF fg_color = None THEN <<>>
             ELSE IF is_outlined
                  THEN <<Prop("border-color", fg_color)>>
                  ELSE <<Prop("background", fg_color), Prop("border-color", fg_color)>>
    ELSE <<>>

\* style_map.get(style.lower(), "Solid"), on lower-case styles.
StyleName(style) ==
    CASE style = "solid" -> "Solid"
      [] style = "dash" -> "Dashed"
      [] OTHER -> "Solid"

\* Border width and style of all shapes.
BorderLines(widget_type, contents) ==
    IF widget_type \in (shapes \cup {"Polyline"}) /\ Has(contents, "basic attribute")
    THEN LET basic_attrs == contents["basic attribute"]
         IN  (IF Has(basic_attrs, "width")
              THEN <<Prop("border-width", <<basic_attrs["width"]>>)>> ELSE <<>>)
             \o
             (IF Has(basic_attrs, "style")
              THEN <<Prop("border-style", <<StyleName(basic_attrs["style"])>>)>>
              ELSE <<>>)
    ELSE <<>>

\* The file line of an Image.
ImageLines(widget_type, contents) ==
    IF widget_type = "Image" /\ Has(contents, "image name")
    THEN <<Prop("file", <<contents["image name"]>>)>>
    ELSE <<>>

\* The orientation line of a ChoiceButton.
ChoiceButtonLines(widget_type, contents) ==
    IF widget_type = "ChoiceButton"
    THEN IF Has(contents, "stacking")
         THEN <<Prop("horizontal", <<"True">>)>>
         ELSE <<Prop("horizontal", <<"False">>)>>
    ELSE <<>>

\* dict.get(key, "")
GetOrEmpty(dict, key) == IF Has(dict, key) THEN dict[key] ELSE ""

\* f"EnableCalc_{self.calc_node_counter}"
CalcName(counter) == <<"EnableCalc_", counter>>

\* f"{calc_name}.CALC"
CalcPv(calc_name) == calc_name \o <<".CALC">>

\* Mutant: the node is stored but the counter is not advanced.
NewCalcNodeSameCounter(self, dynamic_attrs) ==
    LET calc_name == CalcName(self.calc_node_counter)
    IN  [self EXCEPT
            !.has_calc_nodes = TRUE,
            !.calc_nodes = Append(@,
                [name |-> calc_name,
                 expression |-> dynamic_attrs["calc"],
                 channel_a |-> dynamic_attrs["chan"],
                 channel_b |-> GetOrEmpty(dynamic_attrs, "chanB"),
                 channel_c |-> GetOrEmpty(dynamic_attrs, "chanC"),
                 channel_d |-> GetOrEmpty(dynamic_attrs, "chanD")])]

\* The instance after a calc-mode visibility has minted its node.
NewCalcNode(self, dynamic_attrs) ==
    LET counter == self.calc_node_counter + 1
        calc_name == CalcName(counter)
    IN  [self EXCEPT
            !.calc_node_counter = counter,
            !.has_calc_nodes = TRUE,
            !.calc_nodes = Append(@,
                [name |-> calc_name,
                 expression |-> dynamic_attrs["calc"],
                 channel_a |-> dynamic_attrs["chan"],
                 channel_b |-> GetOrEmpty(dynamic_attrs, "chanB"),
                 channel_c |-> GetOrEmpty(dynamic_attrs, "chanC"),
                 channel_d |-> GetOrEmpty(dynamic_attrs, "chanD")])]

\* Whether the visibility section mints a node: calc mode, expression and channel A.
MintsCalcNode(contents) ==
    /\ Has(contents, "dynamic attribute")
    /\ Has(contents["dynamic attribute"], "vis")
    /\ Has(contents["dynamic attribute"], "chan")
    /\ contents["dynamic attribute"]["vis"] = "calc"
    /\ Has(contents["dynamic attribute"], "calc")
    /\ contents["dynamic attribute"]["calc"] /= <<>>
    /\ contents["dynamic attribute"]["chan"] /= ""

\* Mutant: "if zero" is bound to the channel like "if not zero".
VisibilityNotNegated(self, contents) ==
    IF Has(contents, "dynamic attribute")
       /\ Has(contents["dynamic attribute"], "vis")
       /\ Has(contents["dynamic attribute"], "chan")
    THEN LET dynamic_attrs == contents["dynamic attribute"]
         IN  IF dynamic_attrs["vis"] \in {"if not zero", "if zero"}
             THEN [lines |-> <<Prop("visibility",
                                    [tag |-> "", pv |-> <<dynamic_attrs["chan"]>>])>>,
                   self |-> self]
             ELSE IF MintsCalcNode(contents)
             THEN LET after == NewCalcNode(self, dynamic_attrs)
                  IN  [lines |-> <<Prop("visibility",
                                        [tag |-> "",
                                         pv |-> CalcPv(CalcName(after.calc_node_counter))])>>,
                       self |-> after]
             ELSE [lines |-> <<>>, self |-> self]
    ELSE [lines |-> <<>>, self |-> self]

\* The visibility section: its lines and the instance after it.
Visibility(self, contents) ==
    IF Has(contents, "dynamic attribute")
       /\ Has(contents["dynamic attribute"], "vis")
       /\ Has(contents["dynamic attribute"], "chan")
    THEN LET dynamic_attrs == contents["dynamic attribute"]
             visibility_mode == dynamic_attrs["vis"]
             chan_a == dynamic_attrs["chan"]
         IN  IF visibility_mode = "if not zero"
             THEN [lines |-> <<Prop("visibility", [tag |-> "", pv |-> <<chan_a>>])>>,
                   self |-> self]
             ELSE IF visibility_mode = "if zero"
             THEN [lines |-> <<Prop("visibility", [tag |-> "!Not", pv |-> <<chan_a>>])>>,
                   self |-> self]
             ELSE IF MintsCalcNode(contents)
             THEN LET after == NewCalcNode(self, dynamic_attrs)
                      calc_name == CalcName(after.calc_node_counter)
                  IN  [lines |-> <<Prop("visibility",
                                        [tag |-> "", pv |-> CalcPv(calc_name)])>>,
                       self |-> after]
             ELSE [lines |-> <<>>, self |-> self]
    ELSE [lines |-> <<>>, self |-> self]


\* Mutant: the child keeps the substituted geometry.
RestoreGeometryMissing(child, original_geometry) == child

\* child.geometry = original_geometry
RestoreGeometry(child, original_geometry) ==
    [child EXCEPT !.geometry = original_geometry]

\* Mutant: a relative coordinate below 0 is taken to 0.
RebaseClamped(geometry, group_x, group_y) ==
    Geometry(IF geometry.x - group_x < 0 THEN 0 ELSE geometry.x - group_x,
             IF geometry.y - group_y < 0 THEN 0 ELSE geometry.y - group_y,
             geometry.width, geometry.height)

\* Mutant: the child's geometry is passed on as it is.
RebaseAbsolute(geometry, group_x, group_y) == geometry

\* Geometry(child.x - group_x, child.y - group_y, child.width, child.height)
Rebase(geometry, group_x, group_y) ==
    Geometry(geometry.x - group_x, geometry.y - group_y, geometry.width, geometry.height)

\* Mutant: the out-of-display test is strict on neither side (>= and <=).
IsSkippedOutsideInclusive(self, widget) ==
    /\ widget.geometry /= None
    /\ \/ widget.geometry.x + widget.geometry.width <= 0
       \/ widget.geometry.x >= self.display_width
       \/ widget.geometry.y + widget.geometry.height <= 0
       \/ widget.geometry.y >= self.display_height

\* The first omission rule of convert_widget_to_lines.
IsSkippedOutside(self, widget) ==
    /\ widget.geometry /= None
    /\ OutsideDisplay(widget.geometry, self.display_width, self.display_height)

RECURSIVE convert_widget_to_lines(_, _, _, _)
RECURSIVE add_widget_properties_lines(_, _, _, _, _)
RECURSIVE GroupChildren(_, _, _, _, _)

\* The loop over the children of a Group, from child i on (0-based).
GroupChildren(self, widget, i, lines, color_table) ==
    IF i >= Len(widget.widgets)
    THEN [lines |-> lines, self |-> self, widget |-> widget, log |-> <<>>]
    ELSE LET child == widget.widgets[i + 1]
             group_x == IF widget.geometry /= None THEN widget.geometry.x ELSE 0
             group_y == IF widget.geometry /= None THEN widget.geometry.y ELSE 0
             r == IF child.geometry /= None
                  THEN LET original_geometry == child.geometry
                           relative_geometry == Rebase(child.geometry, group_x, group_y)
                           call == convert_widget_to_lines(
                                       self, [child EXCEPT !.geometry = relative_geometry],
                                       i, color_table)
                       IN  [lines |-> call.lines, self |-> call.self,
                            widget |-> RestoreGeometry(call.widget, original_geometry),
                            log |-> call.log]
                  ELSE convert_widget_to_lines(self, child, i, color_table)
             rest == GroupChildren(r.self, [widget EXCEPT !.widgets[i + 1] = r.widget],
                                   i + 1, lines \o IndentLines(r.lines), color_table)
         IN  [rest EXCEPT !.log = r.log \o @]

add_widget_properties_lines(self, widget, lines, widget_type, color_table) ==
    LET contents == widget.contents
        vis == Visibility(self, contents)
        own == lines
               \o PvLines(contents)
               \o TextLines(widget, widget_type)
               \o FormatLines(widget_type, contents)
               \o DirectionLines(widget_type, contents)
               \o MessageButtonLines(widget_type, contents)
               \o RelatedDisplayLines(widget, widget_type, contents)
               \o ShellCommandLines(widget, widget_type, contents)
               \o PointsLines(widget, widget_type)
               \o PolylineLines(self, widget, widget_type, color_table)
               \o ClosedShapeLines(self, widget, widget_type, contents, color_table)
               \o BorderLines(widget_type, contents)
               \o ImageLines(widget_type, contents)
               \o vis.lines
               \o ChoiceButtonLines(widget_type, contents)
    IN  IF widget_type = "Group" /\ widget.widgets /= <<>>
        THEN GroupChildren(vis.self, widget, 0,
                           own \o <<Prop("children", <<>>)>>, color_table)
        ELSE [lines |-> own, self |-> vis.self, widget |-> widget, log |-> <<>>]

convert_widget_to_lines(self, widget, index, color_table) ==
    IF IsSkippedOutside(self, widget)
    THEN [lines |-> <<>>, self |-> self, widget |-> widget,
          log |-> <<SkippedOutside(widget)>>]
    ELSE IF widget.symbol \notin DOMAIN WIDGET_TYPE_MAP
    THEN [lines |-> <<>>, self |-> self, widget |-> widget, log |-> <<NoMatch(widget)>>]
    ELSE LET widget_type == WIDGET_TYPE_MAP[widget.symbol]
             lines == <<Block(WidgetName(widget, index), widget_type)>>
                      \o GeometryLines(widget)
                      \o ColorLines(self, widget, widget_type, color_table)
         IN  IF DOMAIN widget.contents /= {}
             THEN add_widget_properties_lines(self, widget, lines, widget_type, color_table)
             ELSE [lines |-> lines, self |-> self, widget |-> widget, log |-> <<>>]

----------------------------------------------------------------------------
(* Document Assembler: convert_display                                     *)

DEFAULT_WIDTH == 437
DEFAULT_HEIGHT == 274

RECURSIVE TopLevelWidgets(_, _, _, _)

\* Mutant: the loop ends at the first widget of an unknown symbol.
TopLevelWidgetsStopAtUnmapped(self, doc, i, lines) ==
    IF i >= Len(doc.widgets) \/ doc.widgets[i + 1].symbol \notin DOMAIN WIDGET_TYPE_MAP
    THEN [lines |-> lines, self |-> self, medm |-> doc, log |-> <<>>]
    ELSE LET r == convert_widget_to_lines(self, doc.widgets[i + 1], i, doc.color_table)
             rest == TopLevelWidgets(r.self, [doc EXCEPT !.widgets[i + 1] = r.widget],
                                     i + 1,
                                     IF r.lines /= <<>> THEN lines \o r.lines \o <<Blank>>
                                     ELSE lines)
         IN  [rest EXCEPT !.log = r.log \o @]

\* for i, widget in enumerate(medm.widgets): lower it, add its lines and a blank.
TopLevelWidgets(self, doc, i, lines) ==
    IF i >= Len(doc.widgets)
    THEN [lines |-> lines, self |-> self, medm |-> doc, log |-> <<>>]
    ELSE LET r == convert_widget_to_lines(self, doc.widgets[i + 1], i, doc.color_table)
             rest == TopLevelWidgets(r.self, [doc EXCEPT !.widgets[i + 1] = r.widget],
                                     i + 1,
                                     IF r.lines /= <<>> THEN lines \o r.lines \o <<Blank>>
                                     ELSE lines)
         IN  [rest EXCEPT !.log = r.log \o @]

\* The calc expressions that the documents of the model hold.
ExprA == <<"A", "#", "0">>
ExprB == <<"A", "=", "B", "&", "&", "C">>
DocumentExpressions == {ExprA, ExprB}

\* convert_medm_to_python on each of them, computed once.
PythonExpression == [e \in DocumentExpressions |-> convert_medm_to_python(e)]

\* The block of one computed-visibility node.
CalcBlock(calc_info) ==
    <<Blank,
      Block(calc_info.name, "Calc"),
      Prop("calc", <<PythonExpression[calc_info.expression]>>),
      Prop("A", <<calc_info.channel_a>>)>>
    \o (IF calc_info.channel_b /= "" THEN <<Prop("B", <<calc_info.channel_b>>)>> ELSE <<>>)
    \o (IF calc_info.channel_c /= "" THEN <<Prop("C", <<calc_info.channel_c>>)>> ELSE <<>>)
    \o (IF calc_info.channel_d /= "" THEN <<Prop("D", <<calc_info.channel_d>>)>> ELSE <<>>)
    \o <<Prop("pv", CalcPv(calc_info.name))>>

RECURSIVE CalcBlocks(_)
\* for calc_info in self.calc_nodes: its block.
CalcBlocks(nodes) ==
    IF nodes = <<>> THEN <<>> ELSE CalcBlock(Head(nodes)) \o CalcBlocks(Tail(nodes))

\* The alias definitions, in the dict's insertion order (ascending index).
RECURSIVE AliasLines(_, _)
AliasLines(aliases, todo) ==
    IF todo = {} THEN <<>>
    ELSE LET i == CHOOSE k \in todo : \A j \in todo : k <= j
         IN  <<AliasDef(AliasName(i), aliases[i])>> \o AliasLines(aliases, todo \ {i})

\* The lines of the header, the alias definitions and the Form block.
Preamble(self, doc) ==
    <<Include("colors.yml"), Include("widgets.yml"), Blank,
      Comment(<<"Gestalt display file generated from MEDM ADL">>),
      Comment(<<"Source: ", doc.given_filename.name>>),
      Comment(<<"Generator: adl2gestalt">>),
      Blank>>
    \o (IF DOMAIN self.color_aliases /= {}
        THEN <<Blank, Comment(<<"Custom colors from MEDM color table">>)>>
             \o AliasLines(self.color_aliases, DOMAIN self.color_aliases)
        ELSE <<>>)
    \o <<Blank, Block(<<"Form">>, "Form")>>
    \o (IF doc.geometry /= None
        THEN <<Prop("geometry", <<doc.geometry.width, doc.geometry.height>>)>>
        ELSE <<>>)
    \o <<Prop("margins", <<10, 0, 10, 10>>)>>
    \o (IF ColorTruthy(doc.color)
        THEN <<Prop("foreground", get_color_reference(self, doc.color, doc.color_table))>>
        ELSE <<>>)
    \o (IF ColorTruthy(doc.background_color)
        THEN <<Prop("background",
                    get_color_reference(self, doc.background_color, doc.color_table))>>
        ELSE <<>>)
    \o <<Blank>>

\* The instance after the first statements of convert_display: the color map is
\* rebuilt and the display dimensions are set; nothing else is touched.
StartDocument(self, doc) ==
    LET colored == build_color_map(self, doc.color_table)
    IN  [colored EXCEPT
            !.display_width =
                IF doc.geometry /= None THEN doc.geometry.width ELSE DEFAULT_WIDTH,
            !.display_height =
                IF doc.geometry /= None THEN doc.geometry.height ELSE DEFAULT_HEIGHT]

\* Mutant: the computed-visibility blocks are written right after the Form block.
convert_display_calc_first(self, doc) ==
    LET started == StartDocument(self, doc)
        head == Preamble(started, doc)
        body == TopLevelWidgets(started, doc, 0, head)
        nodes == IF body.self.has_calc_nodes THEN body.self.calc_nodes ELSE <<>>
    IN  [lines |-> head \o CalcBlocks(nodes)
                   \o SubSeq(body.lines, Len(head) + 1, Len(body.lines)),
         self |-> body.self, medm |-> body.medm, log |-> body.log]

\* convert_display: the lines, the instance and the document object afterwards.
convert_display(self, doc) ==
    LET started == StartDocument(self, doc)
        body == TopLevelWidgets(started, doc, 0, Preamble(started, doc))
        nodes == IF body.self.has_calc_nodes THEN body.self.calc_nodes ELSE <<>>
    IN  [lines |-> body.lines \o CalcBlocks(nodes), self |-> body.self, medm |-> body.medm,
         log |-> body.log]

----------------------------------------------------------------------------
(* The documents the converter is given.                                   *)

EmptyDict == <<>>

\* A dict with one key.
Dict1(k, v) == k :> v

FileName(name) == [dir |-> "screens", name |-> name]

Document(name, geometry, color, background_color, color_table, widgets) ==
    [given_filename |-> FileName(name), geometry |-> geometry, color |-> color,
     background_color |-> background_color, color_table |-> color_table,
     widgets |-> widgets]

Canvas == Geometry(0, 0, 400, 300)

\* A rectangle without colors or contents.
Rect(x, y) == Widget("rectangle", "", Geometry(x, y, 20, 20), None, None, EmptyDict, <<>>)

\* A widget of a symbol that WIDGET_TYPE_MAP does not know.
Unmapped(x, y, contents) ==
    Widget("unknown widget", "", Geometry(x, y, 20, 20), None, None, contents, <<>>)

\* A text update bound to a channel, with more contents.
TextUpdate(x, y, contents) ==
    Widget("text update", "", Geometry(x, y, 60, 20), None, None,
           Dict1("monitor", Dict1("chan", "pvM")) @@ contents, <<>>)

\* A composite with its children.
Composite(x, y, contents, children) ==
    Widget("composite", "", Geometry(x, y, 200, 150), None, None,
           Dict1("composite name", "") @@ contents, children)

Plain(name, widgets) == Document(name, Canvas, None, None, <<>>, widgets)

\* Color tables of different lengths.
White == Color(255, 255, 255)
Teal == Color(10, 120, 130)
Plum == Color(140, 50, 160)
Sand == Color(200, 180, 120)
Palette == <<Teal, White, Plum>>
ColorTables == { <<>>, <<Sand>>, <<White, Teal>>, Palette }

\* The documents whose widgets compute visibility from ExprB are the ones that
\* come with the three-color palette.
Drawn(name, calc, widgets) ==
    Document(name, Canvas, None, None, IF calc = ExprB THEN Palette ELSE <<>>, widgets)

\* One top-level rectangle around every edge of the canvas.
EdgeXs == {-50, -20, 0, 400, 401}
EdgeYs == {-50, -20, 0, 300, 301}
EdgeDocs ==
    { Plain("edge.adl", <<Rect(x, y)>>) : x \in EdgeXs, y \in EdgeYs }
    \cup
    { Document("nogeom.adl", None, None, None, <<>>, <<Rect(x, y)>>) :
        x \in {DEFAULT_WIDTH, DEFAULT_WIDTH + 1}, y \in {DEFAULT_HEIGHT, DEFAULT_HEIGHT + 1} }

\* A top-level Group and its direct children.
GroupOrigins == { <<0, 0>>, <<100, 50>> }
ChildOrigins == { <<110, 60>>, <<50, 20>>, <<390, 290>> }
GroupDocs ==
    { Plain("group.adl", <<Composite(g[1], g[2], EmptyDict, <<Rect(c[1], c[2])>>)>>) :
        g \in GroupOrigins, c \in ChildOrigins }
    \cup
    { Plain("group2.adl",
            <<Composite(g[1], g[2], EmptyDict, <<Rect(c[1], c[2]), Rect(d[1], d[2])>>)>>) :
        g \in GroupOrigins, c \in ChildOrigins, d \in ChildOrigins }
    \cup
    { Plain("bare.adl",
            <<Widget("composite", "", Geometry(100, 50, 200, 150), None, None, EmptyDict,
                     <<Rect(110, 60)>>)>>),
      Plain("nogroupgeom.adl",
            <<Widget("composite", "", None, None, None, Dict1("composite name", ""),
                     <<Rect(110, 60)>>)>>) }

\* Groups in groups, two and three deep.
InnerOrigins == { <<100, 50>>, <<110, 60>> }
LeafOrigins == { <<110, 60>>, <<160, 110>> }
NestedDocs ==
    { Plain("nested.adl",
            <<Composite(g[1], g[2], EmptyDict,
                <<Composite(h[1], h[2], EmptyDict, <<Rect(c[1], c[2])>>),
                  Rect(c[1], c[2])>>)>>) :
        g \in GroupOrigins, h \in InnerOrigins, c \in LeafOrigins }
    \cup
    { Plain("deep.adl",
            <<Composite(g[1], g[2], EmptyDict,
                <<Composite(110, 60, EmptyDict,
                    <<Composite(120, 70, EmptyDict, <<Rect(130, 80)>>)>>)>>)>>) :
        g \in GroupOrigins }

\* Widgets of a symbol without a Gestalt equivalent among their siblings, at the
\* top level and in a Group.
UnmappedDocs ==
    { Plain("unmapped.adl", <<a, TextUpdate(10, 40, EmptyDict), b, Rect(50, 50)>>) :
        a \in {Unmapped(10, 10, EmptyDict), Rect(10, 10)},
        b \in {Unmapped(30, 30, EmptyDict), Rect(30, 30)} }
    \cup
    { Plain("unmappedchild.adl",
            <<Composite(100, 50, EmptyDict,
                        <<Unmapped(110, 60, EmptyDict), Rect(120, 70),
                          Unmapped(130, 80, EmptyDict)>>),
              Rect(10, 10)>>) }

\* Dynamic attributes: every visibility mode, with and without channel A and calc.
VisModes == {"calc", "if not zero", "if zero", "static"}
ChanChoices == {"<absent>", "", "pvA"}
CalcChoices == {PyNone, <<>>, ExprA, ExprB}

\* ExprB reads the channels B and C, and a widget using it binds them.
DynamicAttribute(vis, chan, calc) ==
    Dict1("dynamic attribute",
          Dict1("vis", vis)
          @@ (IF chan = "<absent>" THEN EmptyDict ELSE Dict1("chan", chan))
          @@ (IF calc = PyNone THEN EmptyDict ELSE Dict1("calc", calc))
          @@ (IF calc = ExprB THEN Dict1("chanB", "pvB") @@ Dict1("chanC", "pvC")
              ELSE EmptyDict))

CalcAttribute(calc) == DynamicAttribute("calc", "pvA", calc)

VisibilityDocs ==
    { Drawn("vis.adl", ca, <<TextUpdate(10, 10, DynamicAttribute(v, ch, ca))>>) :
        v \in VisModes, ch \in ChanChoices, ca \in CalcChoices }
    \cup
    { Drawn("visgroup.adl", cb,
            <<Rect(10, 10),
              Composite(100, 50, CalcAttribute(ca),
                        <<TextUpdate(110, 60, CalcAttribute(cb))>>)>>) :
        ca \in {PyNone, ExprA}, cb \in {ExprA, ExprB} }
    \cup
    { Drawn("vishidden.adl", ca,
            <<TextUpdate(500, 10, CalcAttribute(ExprA)),
              Unmapped(10, 10, CalcAttribute(ExprA)),
              Composite(100, 50, EmptyDict, <<TextUpdate(50, 60, CalcAttribute(ExprA))>>),
              TextUpdate(10, 40, CalcAttribute(ca))>>) :
        ca \in {<<>>, ExprB} }

\* Color tables of different lengths, and colors given by index and by value.
ColorDocs ==
    { Document("colors.adl", Canvas, fg, ColorIndex(1), table,
               <<Widget("text update", "", Geometry(10, 10, 60, 20), fg, Teal,
                        Dict1("monitor", Dict1("chan", "pvM")), <<>>)>>) :
        table \in ColorTables, fg \in {None, ColorIndex(0), ColorIndex(2), White} }

\* A document with custom colors in use, widgets of several kinds, one of them
\* unknown, and computed visibility at the top level and in a Group.
OrderDocs ==
    { Document("order.adl", Canvas, ColorIndex(2), None, Palette,
               <<Rect(10, 10),
                 Widget("text update", "", Geometry(10, 40, 60, 20), ColorIndex(2), None,
                        Dict1("monitor", Dict1("chan", "pvM")) @@ CalcAttribute(ExprA),
                        <<>>),
                 Unmapped(10, 70, EmptyDict),
                 Composite(100, 50, EmptyDict,
                           <<TextUpdate(110, 60, CalcAttribute(ExprA))>>),
                 Rect(10, 100)>>) }

\* A polyline or polygon with its points, in the coordinates of the display.
Pointed(symbol, x, y, points) ==
    [points |-> points]
    @@ Widget(symbol, "", Geometry(x, y, 20, 20), None, None,
              Dict1("basic attribute", Dict1("width", "2")), <<>>)

\* A polyline and a polygon at the top level and in a Group, the Group at the
\* origin of the display and away from it.
PointDocs ==
    { Plain("points.adl",
            <<Pointed("polyline", 10, 10, <<Point(10, 10), Point(30, 30)>>),
              Pointed("polygon", 50, 50, <<Point(50, 70), Point(60, 50), Point(70, 70)>>),
              Composite(g[1], g[2], EmptyDict,
                        <<Pointed("polyline", 110, 60, <<Point(110, 60), Point(130, 80)>>),
                          Pointed("polygon", 150, 100,
                                  <<Point(150, 120), Point(160, 100), Point(170, 120)>>)>>)>>) :
        g \in {<<0, 0>>, <<100, 50>>} }

\* The symbols of the line-like and the closed shapes.
ShapeSymbols == <<"polyline", "line", "rectangle", "oval", "polygon", "arc">>

\* The contents of a shape: none, or a basic attribute with or without a fill mode.
ShapeContents ==
    { EmptyDict,
      Dict1("basic attribute", Dict1("fill", "outline")),
      Dict1("basic attribute", Dict1("fill", "solid")),
      Dict1("basic attribute", Dict1("width", "2")) }

\* One shape of every symbol, all with the same colors and contents.
ShapeDocs ==
    { Document("shapes.adl", Canvas, None, None, Palette,
               [k \in DOMAIN ShapeSymbols |->
                   Widget(ShapeSymbols[k], "", Geometry(30 * k, 10, 20, 20), fg, bg,
                          contents, <<>>)]) :
        fg \in {None, ColorIndex(1), ColorIndex(2)},
        bg \in {None, ColorIndex(1)},
        contents \in ShapeContents }

\* The linked targets of a related display or shell command: none, one with a
\* label that has the "-" marker, one with a name only, and two.
Targets ==
    { <<>>,
      <<Dict1("label", <<"-", "A">>) @@ Dict1("name", <<"a">>) @@ Dict1("args", <<"P">>)>>,
      <<Dict1("name", <<"-", "b">>)>>,
      <<Dict1("label", <<"B">>) @@ Dict1("name", <<"b">>),
        Dict1("label", <<"-", "-", "C">>) @@ Dict1("name", <<"c">>)>> }

\* The contents of such a widget: none, without a label, and with a label with
\* and without the marker.
ButtonContents ==
    { EmptyDict, Dict1("visual", "menu"),
      Dict1("label", <<"-", "G", "o">>), Dict1("label", <<"G", "o">>) }

\* A related display and a shell command with the same contents and targets.
NavigationDocs ==
    { Plain("navigation.adl",
            <<[displays |-> targets]
              @@ Widget("related display", "", Geometry(10, 10, 80, 20), None, None,
                        contents, <<>>),
              [commands |-> targets]
              @@ Widget("shell command", "", Geometry(10, 40, 80, 20), None, None,
                        contents, <<>>)>>) :
        targets \in Targets, contents \in ButtonContents }

\* Format names of the source, the last one not a name the target knows of.
SourceFormats ==
    {"decimal", "exponential", "engr. notation", "compact", "hexadecimal", "octal",
     "string", "binary", "truncated"}

\* Alignments of the source, the last one not a horizontal one.
SourceAligns == <<"horiz. left", "horiz. centered", "horiz. right", "vert. top">>

\* Text updates and text entries with a format, one for every alignment.
FormatDocs ==
    { Plain("formats.adl",
            [k \in DOMAIN SourceAligns |->
                Widget(IF k % 2 = 1 THEN "text update" ELSE "text entry", "",
                       Geometry(10, 30 * k, 60, 20), None, None,
                       Dict1("format", fmt) @@ Dict1("align", SourceAligns[k]), <<>>)]) :
        fmt \in SourceFormats }

\* A Group on the canvas with a child to the right of the canvas.
FarChildDocs ==
    { Plain("farchild.adl",
            <<Composite(100, 50, EmptyDict, <<Rect(410, 60), Rect(110, 60)>>)>>) }

\* A text entry with a control channel, and one with a monitor channel too.
ChannelDocs ==
    { Plain("channels.adl",
            <<Widget("text entry", "", Geometry(10, 10, 60, 20), None, None,
                     Dict1("control", Dict1("chan", "pvC")), <<>>),
              Widget("text entry", "", Geometry(10, 40, 60, 20), None, None,
                     Dict1("control", Dict1("chan", "pvC"))
                     @@ Dict1("monitor", Dict1("chan", "pvM")), <<>>)>>) }

Docs ==
    EdgeDocs \cup GroupDocs \cup NestedDocs \cup UnmappedDocs \cup VisibilityDocs
    \cup ColorDocs \cup OrderDocs \cup PointDocs \cup ShapeDocs \cup NavigationDocs
    \cup FormatDocs \cup FarChildDocs \cup ChannelDocs

----------------------------------------------------------------------------
(* The converter as a state machine: one instance, as convert_command      *)
(* makes it, converting document after document.                           *)

\* The instance attributes, as a record.
Self ==
    [color_map |-> color_map, color_aliases |-> color_aliases,
     calc_nodes |-> calc_nodes, has_calc_nodes |-> has_calc_nodes,
     calc_node_counter |-> calc_node_counter,
     display_width |-> display_width, display_height |-> display_height]

\* MedmToGestaltConverter.__init__, in convert_command.
InitConverter ==
    /\ color_map = <<>>
    /\ color_aliases = <<>>
    /\ calc_nodes = <<>>
    /\ has_calc_nodes = FALSE
    /\ calc_node_counter = 0
    /\ display_width = DEFAULT_WIDTH
    /\ display_height = DEFAULT_HEIGHT
    /\ pc = "ready"
    /\ medm = None
    /\ output = <<>>
    /\ diagnostics = <<>>

NoExpression ==
    /\ medm_expression = PyNone
    /\ python_expr = PyNone
    /\ recompiled = PyNone
    /\ expr_stage = "idle"

\* get_color_reference has not been called on its own.
NoLookup ==
    /\ lookup_color = None
    /\ lookup_result = None

\* No geometry is being re-based on its own.
NoRebase ==
    /\ rebase_child = None
    /\ rebase_origin = <<0, 0>>
    /\ rebase_relative = None
    /\ rebase_restored = None

\* No function of gestalt_runner has been called.
NoRunner ==
    /\ runner_env = None
    /\ runner_call = "none"
    /\ runner_results = None

Init == InitConverter /\ NoExpression /\ NoLookup /\ NoRebase /\ NoRunner

instance_vars == <<color_map, color_aliases, calc_nodes, has_calc_nodes,
                   calc_node_counter, display_width, display_height>>

\* convert_file, up to the call of convert_display: the next file of the batch is
\* parsed into a fresh document object.
ParseFile(doc) ==
    /\ pc \in {"ready", "converted"}
    /\ pc' = "parsed"
    /\ medm' = doc
    /\ output' = <<>>
    /\ diagnostics' = <<>>
    /\ UNCHANGED instance_vars
    /\ UNCHANGED <<expr_vars, lookup_vars, rebase_vars, runner_vars>>

\* gestalt_content = self.convert_display(medm)
ConvertDisplay ==
    /\ pc = "parsed"
    /\ \E r \in {convert_display(Self, medm)} :
        /\ r.self.calc_node_counter <= MaxCalcNodes
        /\ color_map' = r.self.color_map
        /\ color_aliases' = r.self.color_aliases
        /\ calc_nodes' = r.self.calc_nodes
        /\ has_calc_nodes' = r.self.has_calc_nodes
        /\ calc_node_counter' = r.self.calc_node_counter
        /\ display_width' = r.self.display_width
        /\ display_height' = r.self.display_height
        /\ medm' = r.medm
        /\ output' = r.lines
        /\ diagnostics' = r.log
    /\ pc' = "converted"
    /\ UNCHANGED <<expr_vars, lookup_vars, rebase_vars, runner_vars>>

Next ==
    \/ \E doc \in Docs : ParseFile(doc)
    \/ ConvertDisplay

Spec == Init /\ [][Next]_vars

----------------------------------------------------------------------------
(* The color resolver on its own: a color table is mapped, as convert_display *)
(* does first, and colors are looked up in it.                              *)

Black == Color(0, 0, 0)
Red == Color(255, 0, 0)
Green == Color(0, 255, 0)
Blue == Color(0, 0, 255)
Yellow == Color(255, 255, 0)
Cyan == Color(0, 255, 255)
Magenta == Color(255, 0, 255)
Gray == Color(128, 128, 128)
Silver == Color(192, 192, 192)

WellKnown == <<White, Black, Red, Green, Blue, Yellow, Cyan, Magenta, Gray, Silver>>

\* Tables of any of four colors, tables of one well-known color, and the table
\* of all the well-known colors between two others.
LookupTables ==
    UNION { [1..n -> {White, Black, Teal, Plum}] : n \in 0..MaxColors }
    \cup { <<WellKnown[k]>> : k \in 1..Len(WellKnown) }
    \cup { <<Teal>> \o WellKnown \o <<Plum>> }

\* Colors by value, by index (in and outside the tables), and of other types.
LookupColors ==
    { WellKnown[k] : k \in 1..Len(WellKnown) }
    \cup {Teal, Plum, Sand, None}
    \cup { ColorIndex(i) : i \in -1..(MaxColors + 1) }
    \cup { ColorIndex(11), ColorIndex(12) }
    \cup { ColorText("1"), ColorText("teal"), ColorList(<<10, 120, 130>>) }

InitColor == InitConverter /\ NoExpression /\ NoLookup /\ NoRebase /\ NoRunner

\* self.build_color_map(medm.color_table), the first statement of convert_display.
BuildColorMap(color_table) ==
    /\ pc = "ready"
    /\ pc' = "mapped"
    /\ medm' = Document("colors.adl", Canvas, None, None, color_table, <<>>)
    /\ \E built \in {build_color_map(Self, color_table)} :
          /\ color_map' = built.color_map
          /\ color_aliases' = built.color_aliases
    /\ UNCHANGED <<calc_nodes, has_calc_nodes, calc_node_counter, display_width,
                   display_height, output, diagnostics>>
    /\ UNCHANGED <<expr_vars, lookup_vars, rebase_vars, runner_vars>>

\* self.get_color_reference(color, medm.color_table): nothing of the instance is
\* assigned.
GetColorReference(color) ==
    /\ pc \in {"mapped", "looked up"}
    /\ pc' = "looked up"
    /\ lookup_color' = color
    /\ lookup_result' = get_color_reference(Self, color, medm.color_table)
    /\ UNCHANGED <<color_map, color_aliases, calc_nodes, has_calc_nodes,
                   calc_node_counter, display_width, display_height, medm, output,
                   diagnostics>>
    /\ UNCHANGED <<expr_vars, rebase_vars, runner_vars>>

NextColor ==
    \/ \E color_table \in LookupTables : BuildColorMap(color_table)
    \/ \E color \in LookupColors : GetColorReference(color)

SpecColor == InitColor /\ [][NextColor]_vars

----------------------------------------------------------------------------
(* Re-basing on its own: the geometry that the loop over the children of a  *)
(* Group makes of child.geometry and the origin of the Group, and the one   *)
(* it makes of that geometry for a Group at the negated origin.             *)

CoordinateStep == 50

Coordinates == { k * CoordinateStep : k \in (-MaxCoordinate)..MaxCoordinate }

Extents == {0, 20}

InitRebase ==
    /\ InitConverter /\ NoExpression /\ NoLookup /\ NoRunner
    /\ rebase_child \in { Geometry(x, y, w, h) :
                            x \in Coordinates, y \in Coordinates,
                            w \in Extents, h \in Extents }
    /\ rebase_origin \in Coordinates \X Coordinates
    /\ rebase_relative = None
    /\ rebase_restored = None

\* relative_geometry = Geometry(child.geometry.x - group_x, ...)
RebaseChild ==
    /\ rebase_relative = None
    /\ rebase_relative' = Rebase(rebase_child, rebase_origin[1], rebase_origin[2])
    /\ UNCHANGED <<rebase_child, rebase_origin, rebase_restored>>
    /\ UNCHANGED <<converter_vars, expr_vars, lookup_vars, runner_vars>>

\* The same statement for the relative geometry in a Group at (-group_x, -group_y).
RebaseBack ==
    /\ rebase_relative /= None
    /\ rebase_restored = None
    /\ rebase_restored' = Rebase(rebase_relative, -rebase_origin[1], -rebase_origin[2])
    /\ UNCHANGED <<rebase_child, rebase_origin, rebase_relative>>
    /\ UNCHANGED <<converter_vars, expr_vars, lookup_vars, runner_vars>>

NextRebase == RebaseChild \/ RebaseBack

SpecRebase == InitRebase /\ [][NextRebase]_vars

----------------------------------------------------------------------------
(* gestalt_runner: validate_gestalt_file, run_gestalt_file,                *)
(* test_gestalt_conversion, create_gestalt_workflow.  What the functions   *)
(* read from the world (the file, the gestalt package, the gestalt script, *)
(* the process that is run) is an input of the call.                       *)

\* A path, as the parts it is made of.
Path(parts) == [path |-> parts]

\* A message, as the parts its f-string is made of.
Message(parts) == [parts |-> parts]

\* What a try block comes to: a returned pair, or an exception of a class.
Return(ok, message) == [ok |-> ok, message |-> message]

Raise(class, text) == [raise |-> class, text |-> text]

Raised(r) == "raise" \in DOMAIN r

\* The classes that "except Exception" catches.
ExceptionClasses == {"Exception", "ImportError", "OSError", "FileNotFoundError", "YAMLError"}

\* What open() and yaml.safe_load() make of the file, and Stylesheet.parse() after them.
FileKinds == {"missing", "empty", "unparsable", "stylesheet error", "valid"}

validate_gestalt_file(gestalt_file, importable) ==
    LET inner ==
            IF ~importable THEN Raise("ImportError", "No module named 'gestalt'")
            ELSE IF gestalt_file.kind = "stylesheet error"
            THEN Raise("Exception", "bad stylesheet")
            ELSE Return(TRUE, None)
        body ==
            CASE gestalt_file.kind = "missing" ->
                    Raise("FileNotFoundError", "[Errno 2] No such file or directory")
              [] gestalt_file.kind = "unparsable" -> Raise("YAMLError", "while scanning")
              [] gestalt_file.kind = "empty" -> Return(FALSE, Message(<<"Empty YAML file">>))
              [] OTHER ->
                    IF Raised(inner) /\ inner.raise = "ImportError"
                    THEN Return(TRUE,
                                Message(<<"Warning: Could not import gestalt for full validation: ",
                                          inner.text>>))
                    ELSE inner
    IN  IF ~Raised(body) THEN body
        ELSE IF body.raise = "YAMLError"
        THEN Return(FALSE, Message(<<"YAML parsing error: ", body.text>>))
        ELSE IF body.raise \in ExceptionClasses
        THEN Return(FALSE, Message(<<"Validation error: ", body.text>>))
        ELSE body

\* What subprocess.run comes to.
Completed(returncode, stderr, stdout) ==
    [returncode |-> returncode, stderr |-> stderr, stdout |-> stdout]

Processes ==
    { Completed(0, "", "done"), Completed(0, "deprecated", ""),
      Completed(1, "Traceback", "partial"), Completed(2, "", "usage"),
      Raise("OSError", "cannot run") }

formats_to_test == <<"qt", "bob", "dm">>

Formats == { formats_to_test[k] : k \in DOMAIN formats_to_test }

\* Mutant: the exit code is not looked at.
run_gestalt_file_any_exit(output_format, output_file, script_exists, process) ==
    IF ~script_exists
    THEN Return(FALSE, Message(<<"Gestalt script not found at ", "gestalt/gestalt.py">>))
    ELSE IF Raised(process)
    THEN Return(FALSE, Message(<<"Error running gestalt: ", process.text>>))
    ELSE Return(TRUE, Message(<<"Successfully generated ", output_format, " output">>
                              \o (IF output_file /= None THEN <<" to ", output_file.path>>
                                  ELSE <<>>)))

run_gestalt_file(output_format, output_file, script_exists, process) ==
    LET body ==
            IF ~script_exists
            THEN Return(FALSE,
                        Message(<<"Gestalt script not found at ", "gestalt/gestalt.py">>))
            ELSE IF Raised(process) THEN process
            ELSE IF process.returncode = 0
            THEN Return(TRUE,
                        Message(<<"Successfully generated ", output_format, " output">>
                                \o (IF output_file /= None THEN <<" to ", output_file.path>>
                                    ELSE <<>>)))
            ELSE Return(FALSE,
                        Message(<<"Gestalt execution failed: ",
                                  IF process.stderr /= "" THEN process.stderr
                                  ELSE process.stdout>>))
    IN  IF ~Raised(body) THEN body
        ELSE IF body.raise \in ExceptionClasses
        THEN Return(FALSE, Message(<<"Error running gestalt: ", body.text>>))
        ELSE body

\* The gestalt script writes its output file when it ends with exit code 0.
OutputExists(process) == ~Raised(process) /\ process.returncode = 0

\* results["conversions"][fmt]
Conversion(fmt, script_exists, process) ==
    LET output_file == Path(<<"test_output.", fmt>>)
        ran == run_gestalt_file(fmt, output_file, script_exists, process)
        exists == script_exists /\ OutputExists(process)
    IN  [success |-> ran.ok, message |-> ran.message,
         output_exists |-> IF ran.ok THEN exists ELSE FALSE,
         output_size |-> IF exists THEN 1 ELSE 0]

\* Mutant: the formats are run whatever the validation says, and all of them
\* have to succeed.
test_gestalt_conversion_all(gestalt_file, importable, script_exists, processes) ==
    LET validated == validate_gestalt_file(gestalt_file, importable)
        conversions == [fmt \in Formats |-> Conversion(fmt, script_exists, processes[fmt])]
    IN  [file |-> gestalt_file.name,
         validation |-> [valid |-> validated.ok, error |-> validated.message],
         conversions |-> conversions,
         overall_success |-> validated.ok /\ \A fmt \in Formats : conversions[fmt].success]

test_gestalt_conversion(gestalt_file, importable, script_exists, processes) ==
    LET validated == validate_gestalt_file(gestalt_file, importable)
        results == [file |-> gestalt_file.name,
                    validation |-> [valid |-> validated.ok, error |-> validated.message],
                    conversions |-> <<>>,
                    overall_success |-> FALSE]
        conversions == [fmt \in Formats |-> Conversion(fmt, script_exists, processes[fmt])]
    IN  IF ~validated.ok THEN results
        ELSE [results EXCEPT
                !.conversions = conversions,
                !.overall_success =
                    validated.ok /\ \E fmt \in Formats : conversions[fmt].success]

\* What the three statements of Step 1 come to.
ConversionOutcomes == {"converted", "parse fails", "lowering fails", "write fails"}

\* What the written file is to validate_gestalt_file.
GeneratedKinds == {"unparsable", "stylesheet error", "valid"}

\* f"{medm_file.stem}.yml" in output_dir
GestaltFile(medm_file, output_dir, kind) ==
    [name |-> <<output_dir, "/", medm_file.stem, ".yml">>, kind |-> kind]

\* Mutant: a conversion that was written counts as an overall success.
create_gestalt_workflow_written(medm_file, output_dir, test_conversion, world) ==
    LET gestalt_file == GestaltFile(medm_file, output_dir, world.generated)
        outcome == world.outcome
    IN  IF outcome /= "converted"
        THEN [results |-> [medm_file |-> medm_file.name,
                           conversion |-> [success |-> FALSE,
                                           message |-> Message(<<"Conversion failed: ", outcome>>)],
                           validation |-> <<>>, testing |-> <<>>,
                           overall_success |-> FALSE],
              files |-> {}]
        ELSE [results |-> [medm_file |-> medm_file.name,
                           conversion |-> [success |-> TRUE,
                                           gestalt_file |-> gestalt_file.name,
                                           message |-> Message(<<"Successfully converted MEDM to Gestalt">>)],
                           validation |-> <<>>, testing |-> <<>>,
                           overall_success |-> TRUE],
              files |-> {gestalt_file.name}]

\* What create_gestalt_workflow meets: what Step 1 comes to, what the written
\* file is to validate_gestalt_file, and what the runs of the formats meet.
Worlds ==
    [outcome : ConversionOutcomes, generated : GeneratedKinds, importable : BOOLEAN,
     script_exists : BOOLEAN, processes : [Formats -> Processes]]

\* create_gestalt_workflow: the results, and the files it has written.
create_gestalt_workflow(medm_file, output_dir, test_conversion, world) ==
    LET outcome == world.outcome
        results == [medm_file |-> medm_file.name,
                    conversion |-> <<>>, validation |-> <<>>, testing |-> <<>>,
                    overall_success |-> FALSE]
        gestalt_file == GestaltFile(medm_file, output_dir, world.generated)
        converted == [results EXCEPT
                        !.conversion =
                            [success |-> TRUE, gestalt_file |-> gestalt_file.name,
                             message |-> Message(<<"Successfully converted MEDM to Gestalt">>)]]
        test_results == test_gestalt_conversion(gestalt_file, world.importable,
                                                world.script_exists, world.processes)
        body ==
            CASE outcome = "parse fails" -> Raise("Exception", "cannot parse")
              [] outcome = "lowering fails" -> Raise("Exception", "cannot convert")
              [] outcome = "write fails" -> Raise("OSError", "cannot write")
              [] OTHER ->
                    IF test_conversion
                    THEN [converted EXCEPT
                            !.validation = test_results.validation,
                            !.testing = test_results.conversions,
                            !.overall_success = test_results.overall_success]
                    ELSE [converted EXCEPT !.overall_success = TRUE]
    IN  IF ~Raised(body)
        THEN [results |-> body, files |-> {gestalt_file.name}]
        ELSE IF body.raise \in ExceptionClasses
        THEN [results |-> [results EXCEPT
                            !.conversion =
                                [success |-> FALSE,
                                 message |-> Message(<<"Conversion failed: ", body.text>>)]],
              files |-> {}]
        ELSE [results |-> body, files |-> {}]

\* The files and directories the calls are given.
GestaltFiles == { [name |-> <<"out/display.yml">>, kind |-> k] : k \in FileKinds }

MedmFile == [name |-> "screens/display.adl", stem |-> "display"]

InitRunner ==
    InitConverter /\ NoExpression /\ NoLookup /\ NoRebase /\ NoRunner

ValidateGestaltFile(gestalt_file, importable) ==
    /\ runner_call = "none"
    /\ runner_call' = "validate_gestalt_file"
    /\ runner_env' = [gestalt_file |-> gestalt_file, importable |-> importable]
    /\ runner_results' = validate_gestalt_file(gestalt_file, importable)
    /\ UNCHANGED <<converter_vars, expr_vars, lookup_vars, rebase_vars>>

RunGestaltFile(output_format, output_file, script_exists, process) ==
    /\ runner_call = "none"
    /\ runner_call' = "run_gestalt_file"
    /\ runner_env' = [output_format |-> output_format, output_file |-> output_file,
                      script_exists |-> script_exists, process |-> process]
    /\ runner_results' = run_gestalt_file(output_format, output_file, script_exists, process)
    /\ UNCHANGED <<converter_vars, expr_vars, lookup_vars, rebase_vars>>

TestGestaltConversion(gestalt_file, importable, script_exists, processes) ==
    /\ runner_call = "none"
    /\ runner_call' = "test_gestalt_conversion"
    /\ runner_env' = [gestalt_file |-> gestalt_file, importable |-> importable,
                      script_exists |-> script_exists, processes |-> processes]
    /\ runner_results' = test_gestalt_conversion(gestalt_file, importable, script_exists,
                                                 processes)
    /\ UNCHANGED <<converter_vars, expr_vars, lookup_vars, rebase_vars>>

CreateGestaltWorkflow(test_conversion, world) ==
    /\ runner_call = "none"
    /\ runner_call' = "create_gestalt_workflow"
    /\ \E r \in {create_gestalt_workflow(MedmFile, "out", test_conversion, world)} :
          /\ runner_results' = r.results
          /\ runner_env' = [test_conversion |-> test_conversion, world |-> world,
                            files |-> r.files]
    /\ UNCHANGED <<converter_vars, expr_vars, lookup_vars, rebase_vars>>

\* The caller has the result; the next call starts from nothing.
ReturnToCaller ==
    /\ runner_call /= "none"
    /\ runner_call' = "none"
    /\ runner_env' = None
    /\ runner_results' = None
    /\ UNCHANGED <<converter_vars, expr_vars, lookup_vars, rebase_vars>>

NextRunner ==
    \/ \E f \in GestaltFiles, importable \in BOOLEAN : ValidateGestaltFile(f, importable)
    \/ \E fmt \in Formats, output_file \in {None, Path(<<"out/display.ui">>)},
          script_exists \in BOOLEAN, process \in Processes :
            RunGestaltFile(fmt, output_file, script_exists, process)
    \/ \E f \in GestaltFiles, importable \in BOOLEAN, script_exists \in BOOLEAN,
          processes \in [Formats -> Processes] :
            TestGestaltConversion(f, importable, script_exists, processes)
    \/ \E test_conversion \in BOOLEAN, world \in Worlds :
          CreateGestaltWorkflow(test_conversion, world)
    \/ ReturnToCaller

SpecRunner == InitRunner /\ [][NextRunner]_vars

----------------------------------------------------------------------------
(* The expression compiler on its own.                                     *)

InitExpr ==
    /\ InitConverter
    /\ medm_expression \in Expressions
    /\ python_expr = PyNone
    /\ recompiled = PyNone
    /\ expr_stage = "input"
    /\ NoLookup /\ NoRebase /\ NoRunner

\* python_expression = self.convert_medm_to_python(expression)
Compile ==
    /\ expr_stage = "input"
    /\ python_expr' = convert_medm_to_python(medm_expression)
    /\ expr_stage' = "compiled"
    /\ UNCHANGED <<medm_expression, recompiled>>
    /\ UNCHANGED <<converter_vars, lookup_vars, rebase_vars, runner_vars>>

\* The compiled expression is compiled again.
Recompile ==
    /\ expr_stage = "compiled"
    /\ recompiled' = convert_medm_to_python(python_expr)
    /\ expr_stage' = "recompiled"
    /\ UNCHANGED <<medm_expression, python_expr>>
    /\ UNCHANGED <<converter_vars, lookup_vars, rebase_vars, runner_vars>>

NextExpr == Compile \/ Recompile

SpecExpr == InitExpr /\ [][NextExpr]_vars

----------------------------------------------------------------------------
(* Reading an emitted document: the blocks, their properties and the       *)
(* widgets of the tree they were lowered from.                             *)

IsWidgetBlock(line) == line.kind = "block" /\ line.tag \notin {"Form", "Calc"}

WidgetBlocks(lines) == { p \in 1..Len(lines) : IsWidgetBlock(lines[p]) }

CalcBlockPositions(lines) ==
    { p \in 1..Len(lines) : lines[p].kind = "block" /\ lines[p].tag = "Calc" }

\* The sibling index that the name of a widget block ends with.
BlockIndex(line) == line.name[3]

\* The block that a nested block is a child of: the nearest one above it, one level up.
ParentBlock(lines, p) ==
    CHOOSE q \in 1..(p - 1) :
        /\ IsWidgetBlock(lines[q])
        /\ lines[q].indent = lines[p].indent - 8
        /\ \A k \in (q + 1)..(p - 1) :
              ~(IsWidgetBlock(lines[k]) /\ lines[k].indent = lines[p].indent - 8)

RECURSIVE BlockPath(_, _)
\* The sibling indices from the top level down to the block at p.
BlockPath(lines, p) ==
    IF lines[p].indent = 0
    THEN <<BlockIndex(lines[p])>>
    ELSE BlockPath(lines, ParentBlock(lines, p)) \o <<BlockIndex(lines[p])>>

RECURSIVE WidgetAt(_, _)
\* The widget that a path of sibling indices leads to.
WidgetAt(widgets, path) ==
    IF Len(path) = 1
    THEN widgets[path[1] + 1]
    ELSE WidgetAt(widgets[path[1] + 1].widgets, Tail(path))

\* The widget of the document that the block at p was lowered from.
WidgetOf(doc, lines, p) == WidgetAt(doc.widgets, BlockPath(lines, p))

\* The position after the last line of the block at p.
BlockEnd(lines, p) ==
    IF \E q \in (p + 1)..Len(lines) : lines[q].indent <= lines[p].indent
    THEN CHOOSE q \in (p + 1)..Len(lines) :
            /\ lines[q].indent <= lines[p].indent
            /\ \A k \in (p + 1)..(q - 1) : lines[k].indent > lines[p].indent
    ELSE Len(lines) + 1

\* The positions of the block's own property lines with the key.
PropsOf(lines, p, key) ==
    { q \in (p + 1)..(BlockEnd(lines, p) - 1) :
        /\ lines[q].kind = "prop"
        /\ lines[q].indent = lines[p].indent + 4
        /\ lines[q].key = key }

\* The block has the key exactly once, with the value.
HasOnly(lines, p, key, val) ==
    /\ Cardinality(PropsOf(lines, p, key)) = 1
    /\ \A q \in PropsOf(lines, p, key) : lines[q].val = val

\* The visibility lines, at any depth, that name the output of a computed node.
CalcVisibilityLines(lines) ==
    { q \in 1..Len(lines) :
        /\ lines[q].kind = "prop"
        /\ lines[q].key = "visibility"
        /\ Len(lines[q].val.pv) = 3 }

\* The node that such a line names.
NodeNamed(line) == SubSeq(line.val.pv, 1, 2)

Converted == pc = "converted"

\* A step that is a call of convert_display.
ConvertStep == pc = "parsed" /\ pc' = "converted"

----------------------------------------------------------------------------
(* Claims about the documents.                                             *)

\* C1: the computed-visibility blocks of a document are exactly the nodes that
\* the widgets of that document refer to; no node of an earlier document of the
\* same converter instance is among them.
C1_CalcBlocksOfThisDocumentOnly ==
    Converted =>
        { output[p].name : p \in CalcBlockPositions(output) }
            = { NodeNamed(output[q]) : q \in CalcVisibilityLines(output) }

\* C2: after a conversion the color map and the aliases hold entries for the
\* indices of this document's color table only, with this table's colors, and
\* the alias definitions emitted are those aliases.
C2_ColorStateOfThisDocumentOnly ==
    Converted =>
        LET table == medm.color_table
        IN  /\ DOMAIN color_map = TableIndices(table)
            /\ DOMAIN color_aliases \subseteq TableIndices(table)
            /\ \A i \in DOMAIN color_aliases :
                  /\ color_aliases[i] = ColorHex(table[i + 1])
                  /\ color_map[i] = AliasRef(i)
            /\ \A i \in DOMAIN color_map \ DOMAIN color_aliases :
                  color_map[i] = ColorHex(table[i + 1])
            /\ { <<output[q].alias, output[q].color>> :
                    q \in { k \in 1..Len(output) : output[k].kind = "alias" } }
                = { <<AliasName(i), color_aliases[i]>> : i \in DOMAIN color_aliases }

\* An earlier document (one computing visibility from ExprB, so with the
\* three-color palette) left its colors in the instance, and a document with a
\* one-color table has been converted after it.
C2_Witness ==
    /\ Converted
    /\ \E k \in 1..Len(calc_nodes) : calc_nodes[k].expression = ExprB
    /\ medm.color_table = <<Sand>>
    /\ DOMAIN color_map = {0}
    /\ DOMAIN color_aliases = {0}

\* The blocks of the widgets that mint a node.
MintingBlocks(lines, doc) ==
    { p \in WidgetBlocks(lines) : MintsCalcNode(WidgetOf(doc, lines, p).contents) }

\* A widget in calc mode.
CalcMode(contents) ==
    /\ Has(contents, "dynamic attribute")
    /\ Has(contents["dynamic attribute"], "vis")
    /\ contents["dynamic attribute"]["vis"] = "calc"

\* The one block of the node named nm, after position p: its calc, A and pv lines.
OneCalcBlock(lines, p, nm, expression, chan) ==
    /\ Cardinality({ c \in CalcBlockPositions(lines) : lines[c].name = nm }) = 1
    /\ \A c \in CalcBlockPositions(lines) :
          lines[c].name = nm =>
              /\ c > p
              /\ c + 2 <= Len(lines)
              /\ lines[c + 1].kind = "prop" /\ lines[c + 1].key = "calc"
              /\ lines[c + 1].val = <<convert_medm_to_python(expression)>>
              /\ (expression = <<"A", "#", "0">>
                    => lines[c + 1].val = << <<"A", "!", "=", "0">> >>)
              /\ lines[c + 2].kind = "prop" /\ lines[c + 2].key = "A"
              /\ lines[c + 2].val = <<chan>>
              /\ \E q \in (c + 3)..Len(lines) :
                    /\ lines[q].kind = "prop" /\ lines[q].key = "pv"
                    /\ lines[q].val = CalcPv(nm)
                    /\ \A k \in (c + 1)..q : lines[k].kind = "prop"

\* C3: in a conversion, every lowered widget in calc mode with an expression and
\* channel A gets one visibility line "<node>.CALC" for a node that did not exist
\* before, the document has exactly one block for that node, with the compiled
\* expression and the same pv, and no two widgets share a node; a lowered
\* widget in calc mode without expression or channel A gets no visibility line,
\* and the instance gains as many nodes as there are minting widgets.
C3_OneNodePerCalcVisibility ==
    [][ConvertStep =>
        LET lines == output'
            minting == MintingBlocks(lines, medm)
            Node(p) == NodeNamed(lines[CHOOSE q \in PropsOf(lines, p, "visibility") : TRUE])
        IN  /\ \A p \in minting :
                  LET dynamic_attrs == WidgetOf(medm, lines, p).contents["dynamic attribute"]
                  IN  /\ Cardinality(PropsOf(lines, p, "visibility")) = 1
                      /\ \A q \in PropsOf(lines, p, "visibility") :
                            /\ lines[q].val.tag = ""
                            /\ lines[q].val.pv = CalcPv(Node(p))
                      /\ \A k \in 1..Len(calc_nodes) : calc_nodes[k].name /= Node(p)
                      /\ OneCalcBlock(lines, p, Node(p), dynamic_attrs["calc"],
                                      dynamic_attrs["chan"])
            /\ \A p1, p2 \in minting : p1 /= p2 => Node(p1) /= Node(p2)
            /\ \A p \in WidgetBlocks(lines) \ minting :
                  CalcMode(WidgetOf(medm, lines, p).contents)
                      => PropsOf(lines, p, "visibility") = {}
            /\ Len(calc_nodes') = Len(calc_nodes) + Cardinality(minting)
            /\ calc_node_counter' = calc_node_counter + Cardinality(minting)
       ]_vars

\* The one widget of a document that computes visibility, from "A#0", has been
\* lowered after an earlier document minted a node: its line names EnableCalc_2,
\* whose block holds "A!=0".
C3_Witness ==
    /\ Converted
    /\ Cardinality(MintingBlocks(output, medm)) = 1
    /\ \E p \in MintingBlocks(output, medm) :
          /\ WidgetOf(medm, output, p).contents["dynamic attribute"]["calc"] = ExprA
          /\ HasOnly(output, p, "visibility", [tag |-> "", pv |-> CalcPv(CalcName(2))])
          /\ \E c \in CalcBlockPositions(output) :
                /\ output[c].name = CalcName(2)
                /\ output[c + 1].val = << <<"A", "!", "=", "0">> >>

\* The geometry line of the block at p is the widget's geometry re-based to the
\* origin of the widget of the enclosing block.
RebasedToParent(doc, lines, p) ==
    LET path == BlockPath(lines, p)
        child == WidgetAt(doc.widgets, path)
        group == WidgetAt(doc.widgets, SubSeq(path, 1, Len(path) - 1))
    IN  (child.geometry /= None /\ group.geometry /= None) =>
            HasOnly(lines, p, "geometry",
                    <<child.geometry.x - group.geometry.x,
                      child.geometry.y - group.geometry.y,
                      child.geometry.width, child.geometry.height>>)

\* C7: every emitted widget nested in groups, at any depth, has the geometry
\* absolute x,y minus the absolute x,y of its immediately enclosing group.
C7_NestedRebasedToEnclosingGroup ==
    Converted =>
        \A p \in WidgetBlocks(output) :
            output[p].indent >= 8 => RebasedToParent(medm, output, p)

\* C8: every emitted direct child of a top-level Group has the geometry
\* (cx-gx)x(cy-gy)xwxh.
C8_ChildOfTopLevelGroupRebased ==
    Converted =>
        \A p \in WidgetBlocks(output) :
            output[p].indent = 8 => RebasedToParent(medm, output, p)

\* The child at absolute (110,60) of the Group at absolute (100,50) is emitted
\* at (10,10).
C8_Witness ==
    /\ Converted
    /\ \E p \in WidgetBlocks(output) :
          /\ output[p].indent = 8
          /\ WidgetOf(medm, output, p).geometry = Geometry(110, 60, 20, 20)
          /\ WidgetAt(medm.widgets, <<BlockPath(output, p)[1]>>).geometry
                = Geometry(100, 50, 200, 150)
          /\ HasOnly(output, p, "geometry", <<10, 10, 20, 20>>)

\* C9: a call of convert_display leaves the document object as it was: every
\* geometry substituted while a Group was lowered has been put back.
C9_GeometryRestored ==
    [][ConvertStep => medm' = medm]_vars

\* A widget three groups deep has been lowered, each of the groups away from
\* the origin, and the tree is the parsed one again.
C9_Witness ==
    /\ Converted
    /\ medm \in NestedDocs
    /\ medm.widgets[1].geometry = Geometry(100, 50, 200, 150)
    /\ \E p \in WidgetBlocks(output) :
          /\ output[p].indent = 24
          /\ WidgetOf(medm, output, p).geometry = Geometry(130, 80, 20, 20)

\* The canvas of a document.
CanvasWidth(doc) == IF doc.geometry /= None THEN doc.geometry.width ELSE 437
CanvasHeight(doc) == IF doc.geometry /= None THEN doc.geometry.height ELSE 274

\* The top-level widget i has a block in the document.
TopLevelEmitted(lines, i) ==
    \E p \in WidgetBlocks(lines) : lines[p].indent = 0 /\ BlockIndex(lines[p]) = i

\* The child j of the top-level widget i has a block in the document.
ChildEmitted(lines, i, j) ==
    \E p \in WidgetBlocks(lines) : lines[p].indent = 8 /\ BlockPath(lines, p) = <<i, j>>

\* The omission rule as documented, for a geometry and a canvas.
OutsideCanvas(x, y, w, h, W, H) == x + w < 0 \/ y + h < 0 \/ x > W \/ y > H

\* C10: a top-level widget (of a known symbol) with geometry (x,y,w,h) is omitted
\* exactly when x+w < 0 or y+h < 0 or x > W or y > H; a direct child of an
\* emitted top-level Group (one with contents, whose children are lowered) is
\* omitted exactly when its geometry as handed to
\* convert_widget_to_lines (re-based to the Group) satisfies the same test.
C10_OmittedExactlyWhenOutsideCanvas ==
    Converted =>
        \A i \in 0..(Len(medm.widgets) - 1) :
            LET widget == medm.widgets[i + 1]
                g == widget.geometry
            IN  (g /= None /\ widget.symbol \in DOMAIN WIDGET_TYPE_MAP) =>
                    /\ ~TopLevelEmitted(output, i)
                          <=> OutsideCanvas(g.x, g.y, g.width, g.height,
                                            CanvasWidth(medm), CanvasHeight(medm))
                    /\ (TopLevelEmitted(output, i)
                        /\ WIDGET_TYPE_MAP[widget.symbol] = "Group"
                        /\ DOMAIN widget.contents /= {}) =>
                          \A j \in 0..(Len(widget.widgets) - 1) :
                              LET c == widget.widgets[j + 1].geometry
                              IN  (c /= None
                                   /\ widget.widgets[j + 1].symbol \in DOMAIN WIDGET_TYPE_MAP) =>
                                      (~ChildEmitted(output, i, j)
                                          <=> OutsideCanvas(c.x - g.x, c.y - g.y, c.width,
                                                            c.height, CanvasWidth(medm),
                                                            CanvasHeight(medm)))

\* The widget at x = -50 of width 20 on the 400-wide canvas has been omitted.
C10_Witness ==
    /\ Converted
    /\ medm.geometry = Geometry(0, 0, 400, 300)
    /\ Len(medm.widgets) = 1
    /\ medm.widgets[1].geometry = Geometry(-50, 0, 20, 20)
    /\ WidgetBlocks(output) = {}

----------------------------------------------------------------------------
(* Claims about the expression compiler.                                   *)

Compiled == expr_stage \in {"compiled", "recompiled"}

\* C4: "F(X)" compiles to "<target of F>(X)" for every function name F of
\* function_mappings.
C4_EachFunctionToItsOwnTarget ==
    Compiled =>
        \A i \in FunctionIndex, x \in {<<"A">>, <<"B">>} :
            medm_expression = Call(function_mappings[i][1], x)
                => python_expr = Call(function_mappings[i][2], x)

RECURSIVE Documented(_)
\* The documented rewriting, token by token from the left: a literal != stays,
\* # gives !=, = gives ==, && gives " and ", || gives " or ", ! gives " not ".
Documented(s) ==
    IF s = <<>> THEN <<>>
    ELSE IF StartsWith(s, <<"!", "=">>) THEN <<"!", "=">> \o Documented(SubSeq(s, 3, Len(s)))
    ELSE IF StartsWith(s, <<"&", "&">>)
         THEN <<" ", "a", "n", "d", " ">> \o Documented(SubSeq(s, 3, Len(s)))
    ELSE IF StartsWith(s, <<"|", "|">>)
         THEN <<" ", "o", "r", " ">> \o Documented(SubSeq(s, 3, Len(s)))
    ELSE IF Head(s) = "#" THEN <<"!", "=">> \o Documented(Tail(s))
    ELSE IF Head(s) = "=" THEN <<"=", "=">> \o Documented(Tail(s))
    ELSE IF Head(s) = "!" THEN <<" ", "n", "o", "t", " ">> \o Documented(Tail(s))
    ELSE <<Head(s)>> \o Documented(Tail(s))

RECURSIVE Squeeze(_)
\* The string with every run of spaces made one space.
Squeeze(s) ==
    IF Len(s) < 2 THEN s
    ELSE IF s[1] = " " /\ s[2] = " " THEN Squeeze(Tail(s))
    ELSE <<Head(s)>> \o Squeeze(Tail(s))

\* C5: a legacy expression compiles to the documented rewriting of its operators:
\* to exactly that string when no ! stands next to a space, and to it up to the
\* width of runs of spaces otherwise (a space next to ! is taken into " not ");
\* the documented examples compile as stated.
C5_OperatorsRewrittenAsDocumented ==
    Compiled =>
        /\ medm_expression \in LegacyExprs =>
              /\ Squeeze(python_expr) = Squeeze(Documented(medm_expression))
              /\ (~Contains(medm_expression, <<" ", "!">>)
                    /\ ~Contains(medm_expression, <<"!", " ">>))
                    => python_expr = Documented(medm_expression)
        /\ medm_expression = <<"A", "#", "B">> => python_expr = <<"A", "!", "=", "B">>
        /\ medm_expression = <<"A", "=", "B", "&", "&", "C">>
              => python_expr = <<"A", "=", "=", "B", " ", "a", "n", "d", " ", "C">>
        /\ medm_expression = <<"!", "A">> => python_expr = <<" ", "n", "o", "t", " ", "A">>
        /\ medm_expression = <<"S", "Q", "R", "(", "A", ")">>
              => python_expr = <<"m", "a", "t", "h", ".", "s", "q", "r", "t", "(", "A", ")">>

\* "#=!" has been compiled to "!=== not ": the # is "!=", the = is "==" and the
\* ! is " not ".
C5_Witness ==
    /\ expr_stage = "compiled"
    /\ medm_expression = <<"#", "=", "!">>
    /\ python_expr = <<"!", "=", "=", "=", " ", "n", "o", "t", " ">>

\* C6: an expression of the target syntax, an empty and an absent expression
\* compile to themselves, and compiling a compiled expression changes nothing.
C6_TargetSyntaxUnchanged ==
    /\ Compiled =>
          (medm_expression \in TargetExprs \cup {PyNone} => python_expr = medm_expression)
    /\ expr_stage = "recompiled" => recompiled = python_expr

----------------------------------------------------------------------------
(* Claims about omitted widgets, colors and the order of the document.     *)

Known(widget) == widget.symbol \in DOMAIN WIDGET_TYPE_MAP

RECURSIVE AsRectangles(_)
\* The widget with every widget of an unknown symbol, itself and below it, being
\* a bare rectangle of the same geometry instead.
AsRectangles(widget) ==
    [widget EXCEPT
        !.symbol = IF Known(widget) THEN @ ELSE "rectangle",
        !.contents = IF Known(widget) THEN @ ELSE EmptyDict,
        !.widgets = [k \in DOMAIN widget.widgets |-> AsRectangles(widget.widgets[k])]]

\* The document with rectangles in the place of the widgets of unknown symbols.
AllKnown(doc) ==
    [doc EXCEPT !.widgets = [k \in DOMAIN doc.widgets |-> AsRectangles(doc.widgets[k])]]

\* The positions of the lines that belong to the blocks lowered from the
\* widgets which have an unknown symbol in doc (a top-level block takes the
\* blank line after it along).
OfUnknown(lines, doc) ==
    { q \in 1..Len(lines) :
        \E p \in WidgetBlocks(lines) :
            /\ ~Known(WidgetOf(doc, lines, p))
            /\ p <= q
            /\ \/ q < BlockEnd(lines, p)
               \/ q = BlockEnd(lines, p) /\ lines[p].indent = 0 }

RECURSIVE Without(_, _, _)
\* The lines from position q on whose positions are not in drop.
Without(lines, drop, q) ==
    IF q > Len(lines) THEN <<>>
    ELSE (IF q \in drop THEN <<>> ELSE <<lines[q]>>) \o Without(lines, drop, q + 1)

\* The diagnostics about unknown symbols.
NoMatchDiagnostics ==
    { k \in 1..Len(diagnostics) : diagnostics[k].level = "warning" }

\* The widget would be omitted for lying outside a display of the size.
Outside(widget, width, height) ==
    widget.geometry /= None /\ OutsideDisplay(widget.geometry, width, height)

\* The children of a Group are lowered.
LowersChildren(widget, width, height) ==
    /\ Known(widget)
    /\ WIDGET_TYPE_MAP[widget.symbol] = "Group"
    /\ DOMAIN widget.contents /= {}
    /\ ~Outside(widget, width, height)

\* The child as the Group hands it to convert_widget_to_lines.
Handed(group, child) ==
    IF child.geometry /= None /\ group.geometry /= None
    THEN [child EXCEPT !.geometry = Rebase(@, group.geometry.x, group.geometry.y)]
    ELSE child

\* The widgets of unknown symbols that are lowered as far as the symbol lookup:
\* at the top level, or directly in a lowered top-level Group, and not outside
\* the display.
LoweredUnknown(doc, width, height) ==
    { <<i>> : i \in { k \in 0..(Len(doc.widgets) - 1) :
                        /\ ~Known(doc.widgets[k + 1])
                        /\ ~Outside(doc.widgets[k + 1], width, height) } }
    \cup
    UNION { { <<i, j>> :
                j \in { k \in 0..(Len(doc.widgets[i + 1].widgets) - 1) :
                          /\ ~Known(doc.widgets[i + 1].widgets[k + 1])
                          /\ ~Outside(Handed(doc.widgets[i + 1],
                                             doc.widgets[i + 1].widgets[k + 1]),
                                      width, height) } } :
            i \in { k \in 0..(Len(doc.widgets) - 1) :
                      LowersChildren(doc.widgets[k + 1], width, height) } }

\* C11: a conversion of a document with widgets of unknown symbols ends; no block
\* comes from such a widget; there is one diagnostic for each of them that is
\* lowered, naming its symbol; and the document is, line for line, the one that
\* the same tree gives with a bare rectangle in the place of each of them, less
\* the blocks of those rectangles: the siblings keep name, index, geometry and
\* properties.
C11_UnmappedSkippedSiblingsUnchanged ==
    [][ConvertStep =>
        /\ \A p \in WidgetBlocks(output') : Known(WidgetOf(medm, output', p))
        /\ Cardinality({ k \in 1..Len(diagnostics') : diagnostics'[k].level = "warning" })
              = Cardinality(LoweredUnknown(medm, display_width', display_height'))
        /\ \A k \in 1..Len(diagnostics') :
              diagnostics'[k].level = "warning"
                  => /\ diagnostics'[k].symbol \notin DOMAIN WIDGET_TYPE_MAP
                     /\ diagnostics'[k].text = "has no match in Gestalt - skipping"
        /\ LET alt == convert_display(Self, AllKnown(medm)).lines
           IN  output' = Without(alt, OfUnknown(alt, medm), 1)
       ]_vars

\* A document with two widgets of the same unknown symbol among four has been
\* converted: two diagnostics, and the blocks of the siblings 1 and 3.
C11_Witness ==
    /\ Converted
    /\ Len(medm.widgets) = 4
    /\ ~Known(medm.widgets[1]) /\ ~Known(medm.widgets[3])
    /\ medm.widgets[1].symbol = medm.widgets[3].symbol
    /\ Cardinality(NoMatchDiagnostics) = 2
    /\ { BlockIndex(output[p]) : p \in WidgetBlocks(output) } = {1, 3}

\* The hex literals of the ten well-known colors, in the order of WellKnown.
WellKnownHex ==
    << <<"$", "f", "f", "f", "f", "f", "f">>, <<"$", "0", "0", "0", "0", "0", "0">>,
       <<"$", "f", "f", "0", "0", "0", "0">>, <<"$", "0", "0", "f", "f", "0", "0">>,
       <<"$", "0", "0", "0", "0", "f", "f">>, <<"$", "f", "f", "f", "f", "0", "0">>,
       <<"$", "0", "0", "f", "f", "f", "f">>, <<"$", "f", "f", "0", "0", "f", "f">>,
       <<"$", "8", "0", "8", "0", "8", "0">>, <<"$", "c", "0", "c", "0", "c", "0">> >>

IsWellKnown(color) == \E k \in 1..Len(WellKnown) : WellKnown[k] = color

Mapped == pc \in {"mapped", "looked up"}

\* A step that is a call of get_color_reference.
LookupStep == pc \in {"mapped", "looked up"} /\ pc' = "looked up"

\* The first index of the table that holds the color, if any does.
FirstIndexOf(color_table, color) ==
    { i \in TableIndices(color_table) :
        /\ color_table[i + 1] = color
        /\ \A j \in 0..(i - 1) : color_table[j + 1] /= color }

\* C12: for every index of the table whose triple is one of the ten well-known
\* colors, the token of the index is the hex literal $rrggbb of the triple and
\* the index has no alias; a lookup of the index, or of the color by value where
\* the index is the first to hold it, returns that literal.
C12_WellKnownColorsDirectHex ==
    Mapped =>
        \A i \in TableIndices(medm.color_table), k \in 1..Len(WellKnown) :
            medm.color_table[i + 1] = WellKnown[k] =>
                /\ color_map[i] = [form |-> "hex", text |-> WellKnownHex[k]]
                /\ i \notin DOMAIN color_aliases
                /\ (pc = "looked up" /\ lookup_color = ColorIndex(i))
                      => lookup_result = [form |-> "hex", text |-> WellKnownHex[k]]
                /\ (pc = "looked up" /\ lookup_color = WellKnown[k]
                    /\ i \in FirstIndexOf(medm.color_table, WellKnown[k]))
                      => lookup_result = [form |-> "hex", text |-> WellKnownHex[k]]

\* Silver, the last of the ten in a table that begins and ends with other colors,
\* has been looked up by value: "$c0c0c0".
C12_Witness ==
    /\ pc = "looked up"
    /\ Len(medm.color_table) = 12
    /\ medm.color_table[11] = Silver
    /\ lookup_color = Silver
    /\ lookup_result = [form |-> "hex", text |-> <<"$", "c", "0", "c", "0", "c", "0">>]
    /\ DOMAIN color_aliases = {0, 11}

\* The indices of a table whose colors are not well-known.
Custom(color_table) ==
    { i \in TableIndices(color_table) : ~IsWellKnown(color_table[i + 1]) }

\* The index a use of a color stands for: the index itself, or the first index
\* holding the color.
UsedIndex(color, color_table) ==
    IF "index" \in DOMAIN color THEN {color.index} ELSE FirstIndexOf(color_table, color)

\* The alias definitions of a document.
AliasDefinitions(lines) == { q \in 1..Len(lines) : lines[q].kind = "alias" }

\* The block at p has the color property exactly when the color is given, and
\* when the color stands for a custom index the property refers to its alias.
UsesAlias(lines, p, key, color, color_table) ==
    /\ ColorTruthy(color) <=> PropsOf(lines, p, key) /= {}
    /\ ColorTruthy(color) =>
          \A i \in UsedIndex(color, color_table) \cap Custom(color_table) :
              HasOnly(lines, p, key, [form |-> "alias", name |-> <<"medm_color_", i>>])

\* The position of the root Form block.
FormBlock(lines) == CHOOSE p \in 1..Len(lines) : lines[p].kind = "block" /\ lines[p].tag = "Form"

\* C13: in a converted document every index of a color that is not well-known has
\* exactly one alias definition, named medm_color_<index>, with the hex value of the
\* index; there is no other alias definition; the names of distinct indices
\* differ; and every use of the index, by the root container, by a widget or in a
\* lookup, is a reference to that alias.
C13_OneAliasPerCustomIndex ==
    Converted =>
        LET table == medm.color_table
        IN  /\ \A i \in Custom(table) :
                  /\ Cardinality({ q \in AliasDefinitions(output) :
                                      output[q].alias = <<"medm_color_", i>> }) = 1
                  /\ \A q \in AliasDefinitions(output) :
                        output[q].alias = <<"medm_color_", i>>
                            => output[q].color = ColorHex(table[i + 1])
                  /\ get_color_reference(Self, ColorIndex(i), table)
                        = [form |-> "alias", name |-> <<"medm_color_", i>>]
            /\ Cardinality(AliasDefinitions(output)) = Cardinality(Custom(table))
            /\ \A i, j \in Custom(table) : i /= j => AliasName(i) /= AliasName(j)
            /\ UsesAlias(output, FormBlock(output), "foreground", medm.color, table)
            /\ UsesAlias(output, FormBlock(output), "background", medm.background_color,
                         table)
            /\ \A p \in WidgetBlocks(output) :
                  (output[p].indent = 0 /\ output[p].tag = "TextMonitor") =>
                      /\ UsesAlias(output, p, "foreground",
                                   WidgetOf(medm, output, p).color, table)
                      /\ UsesAlias(output, p, "background",
                                   WidgetOf(medm, output, p).background_color, table)

\* The three-color palette with two custom colors: index 2 is used by the root
\* and by the widget, both refer to medm_color_2, the widget's background to
\* medm_color_0, and the document defines these two aliases.
C13_Witness ==
    /\ Converted
    /\ medm.color_table = Palette
    /\ medm.color = ColorIndex(2)
    /\ Cardinality(AliasDefinitions(output)) = 2
    /\ HasOnly(output, FormBlock(output), "foreground",
               [form |-> "alias", name |-> <<"medm_color_", 2>>])
    /\ \E p \in WidgetBlocks(output) :
          /\ HasOnly(output, p, "foreground",
                     [form |-> "alias", name |-> <<"medm_color_", 2>>])
          /\ HasOnly(output, p, "background",
                     [form |-> "alias", name |-> <<"medm_color_", 0>>])

\* The color cannot be resolved in the table: a triple that the table does not
\* hold, an index outside the table, a value that int() does not take.
Unresolvable(color, color_table) ==
    /\ color /= None
    /\ \/ "r" \in DOMAIN color /\ FirstIndexOf(color_table, color) = {}
       \/ "index" \in DOMAIN color /\ color.index \notin TableIndices(color_table)
       \/ "str" \in DOMAIN color /\ color.str \notin {"0", "1", "2", "3"}
       \/ "list" \in DOMAIN color

\* C14: a call of get_color_reference with a color that cannot be resolved (a
\* triple not in the table, an index outside it, a str that is no number, a
\* list) returns "$000000"; no call returns anything but a token of the color
\* map, "$000000" or None, and none changes color_map or color_aliases.
C14_UnresolvedColorIsBlack ==
    [][LookupStep =>
        /\ Unresolvable(lookup_color', medm.color_table)
              => lookup_result' = [form |-> "hex",
                                   text |-> <<"$", "0", "0", "0", "0", "0", "0">>]
        /\ \/ lookup_result' = None /\ lookup_color' = None
           \/ \E i \in DOMAIN color_map : lookup_result' = color_map[i]
           \/ lookup_result' = [form |-> "hex",
                                text |-> <<"$", "0", "0", "0", "0", "0", "0">>]
        /\ color_map' = color_map
        /\ color_aliases' = color_aliases
       ]_vars

\* A list has been looked up in a table of two custom colors: "$000000", and the
\* two aliases are as they were.
C14_Witness ==
    /\ pc = "looked up"
    /\ medm.color_table = <<Teal, Plum>>
    /\ lookup_color = ColorList(<<10, 120, 130>>)
    /\ lookup_result = BLACK
    /\ DOMAIN color_aliases = {0, 1}

\* C15: re-basing subtracts the origin from x and y and leaves width and height;
\* re-basing the result by the negated origin gives the original geometry, for
\* negative coordinates and origins as well.
C15_RebaseReversible ==
    /\ rebase_relative /= None =>
          /\ rebase_relative.x = rebase_child.x - rebase_origin[1]
          /\ rebase_relative.y = rebase_child.y - rebase_origin[2]
          /\ rebase_relative.width = rebase_child.width
          /\ rebase_relative.height = rebase_child.height
    /\ rebase_restored /= None => rebase_restored = rebase_child

\* A geometry at negative x and y, re-based by a positive origin to coordinates
\* further below 0, is back where it was.
C15_Witness ==
    /\ rebase_child = Geometry(-50, -100, 20, 0)
    /\ rebase_origin = <<100, 50>>
    /\ rebase_relative = Geometry(-150, -150, 20, 0)
    /\ rebase_restored = Geometry(-50, -100, 20, 0)

\* The top-level widget blocks of a document.
TopLevelBlocks(lines) == { p \in WidgetBlocks(lines) : lines[p].indent = 0 }

\* The lines that refer to an alias.
AliasUses(lines) ==
    { q \in 1..Len(lines) :
        /\ lines[q].kind = "prop"
        /\ lines[q].key \in {"foreground", "background", "border-color"}
        /\ lines[q].val.form = "alias" }

\* The header comment that names the source file.
SourceComments(lines, doc) ==
    { q \in 1..Len(lines) :
        /\ lines[q].kind = "comment"
        /\ lines[q].text = <<"Source: ", doc.given_filename.name>> }

\* C16: a converted document has, in this order, the includes of colors.yml and
\* widgets.yml, the header comment naming the source file, the alias
\* definitions, the root Form block, the top-level widget blocks in the order of
\* the source, and last the computed-visibility blocks; no computed-visibility
\* block precedes a line of a widget block and no alias definition follows a use
\* of its alias.
C16_SectionsInOrder ==
    Converted =>
        LET form == FormBlock(output)
        IN  /\ output[1] = Include("colors.yml")
            /\ output[2] = Include("widgets.yml")
            /\ \A q \in 3..Len(output) : output[q].kind /= "include"
            /\ Cardinality(SourceComments(output, medm)) = 1
            /\ \A c \in SourceComments(output, medm) :
                  /\ c > 2
                  /\ \A q \in 1..Len(output) :
                        output[q].kind \in {"alias", "block", "prop"} => c < q
            /\ Cardinality({ q \in 1..Len(output) :
                                output[q].kind = "block" /\ output[q].tag = "Form" }) = 1
            /\ \A q \in AliasDefinitions(output) : q < form
            /\ \A p \in WidgetBlocks(output) : form < p
            /\ \A p \in TopLevelBlocks(output) :
                  /\ BlockIndex(output[p]) \in 0..(Len(medm.widgets) - 1)
                  /\ output[p].name = WidgetName(medm.widgets[BlockIndex(output[p]) + 1],
                                                 BlockIndex(output[p]))
                  /\ output[p].tag = WIDGET_TYPE_MAP[medm.widgets[BlockIndex(output[p]) + 1].symbol]
            /\ \A p, q \in TopLevelBlocks(output) :
                  p < q <=> BlockIndex(output[p]) < BlockIndex(output[q])
            /\ \A c \in CalcBlockPositions(output) :
                  /\ \A p \in WidgetBlocks(output) : BlockEnd(output, p) <= c
                  /\ \A q \in c..Len(output) :
                        \/ output[q].kind = "blank"
                        \/ output[q].kind = "block" /\ output[q].tag = "Calc"
                        \/ output[q].kind = "prop" /\ output[q].indent = 4
            /\ \A u \in AliasUses(output) :
                  /\ \E d \in AliasDefinitions(output) : output[d].alias = output[u].val.name
                  /\ \A d \in AliasDefinitions(output) :
                        output[d].alias = output[u].val.name => d < u

\* order.adl: two alias definitions, the Form block using one of them, four
\* top-level widget blocks (indices 0, 1, 3, 4), one of them using the same
\* alias, and two computed-visibility blocks at the end.
C16_Witness ==
    /\ Converted
    /\ medm.given_filename.name = "order.adl"
    /\ Cardinality(AliasDefinitions(output)) = 2
    /\ Cardinality(AliasUses(output)) = 2
    /\ { BlockIndex(output[p]) : p \in TopLevelBlocks(output) } = {0, 1, 3, 4}
    /\ Cardinality(CalcBlockPositions(output)) >= 2
    /\ \E u \in AliasUses(output) : u > FormBlock(output) + 4

----------------------------------------------------------------------------
(* Claims about the runner.                                                *)

Called(name) == runner_call = name

\* The message begins with the text.
MessageStarts(message, text) ==
    message /= None /\ message.parts /= <<>> /\ message.parts[1] = text

\* The result is a pair, not an exception on its way to the caller.
IsPair(r) == DOMAIN r = {"ok", "message"}

\* C17: test_gestalt_conversion reports what validate_gestalt_file says of the
\* file; when the file is not valid no format is run, the conversions are empty,
\* the validation error is in the results and overall_success is false; when it
\* is valid there is a conversion for each of qt, bob and dm with what
\* run_gestalt_file says of it, and overall_success is true exactly when one of
\* the three succeeded.
C17_ValidationGatesConversions ==
    Called("test_gestalt_conversion") =>
        LET env == runner_env
            validated == validate_gestalt_file(env.gestalt_file, env.importable)
            conversions == runner_results.conversions
        IN  /\ runner_results.validation.valid = validated.ok
            /\ runner_results.validation.error = validated.message
            /\ ~validated.ok =>
                  /\ DOMAIN conversions = {}
                  /\ runner_results.validation.error /= None
                  /\ runner_results.overall_success = FALSE
            /\ validated.ok =>
                  /\ DOMAIN conversions = {"qt", "bob", "dm"}
                  /\ \A fmt \in DOMAIN conversions :
                        LET ran == run_gestalt_file(fmt, Path(<<"test_output.", fmt>>),
                                                    env.script_exists, env.processes[fmt])
                        IN  /\ conversions[fmt].success = ran.ok
                            /\ conversions[fmt].message = ran.message
                  /\ runner_results.overall_success
                        = (\E fmt \in DOMAIN conversions : conversions[fmt].success)

\* A valid file whose qt run ends with exit code 1 and whose bob run cannot be
\* started, while the dm run succeeds: overall_success is true.
C17_Witness ==
    /\ Called("test_gestalt_conversion")
    /\ runner_env.gestalt_file.kind = "valid"
    /\ runner_env.importable
    /\ runner_env.script_exists
    /\ runner_env.processes["qt"] = Completed(1, "Traceback", "partial")
    /\ runner_env.processes["bob"] = Raise("OSError", "cannot run")
    /\ runner_env.processes["dm"] = Completed(0, "", "done")
    /\ ~runner_results.conversions["qt"].success
    /\ ~runner_results.conversions["bob"].success
    /\ runner_results.conversions["dm"].success
    /\ runner_results.overall_success

\* C18: create_gestalt_workflow returns its results whatever the conversion comes
\* to.  When parsing, lowering or writing fails, conversion.success is false,
\* conversion.message starts with "Conversion failed" and overall_success is
\* false.  When the conversion succeeds, <stem>.yml is in the output directory,
\* and overall_success is true without test_conversion and is the
\* overall_success of test_gestalt_conversion on that file with it.
C18_WorkflowReportsConversion ==
    Called("create_gestalt_workflow") =>
        LET env == runner_env.world
            written == <<"out", "/", "display", ".yml">>
        IN  /\ "conversion" \in DOMAIN runner_results
            /\ env.outcome /= "converted" =>
                  /\ runner_results.conversion.success = FALSE
                  /\ MessageStarts(runner_results.conversion.message, "Conversion failed: ")
                  /\ runner_results.overall_success = FALSE
            /\ env.outcome = "converted" =>
                  /\ runner_results.conversion.success = TRUE
                  /\ runner_results.conversion.gestalt_file = written
                  /\ written \in runner_env.files
                  /\ ~runner_env.test_conversion => runner_results.overall_success = TRUE
                  /\ runner_env.test_conversion =>
                        LET tested == test_gestalt_conversion(
                                          [name |-> written, kind |-> env.generated],
                                          env.importable, env.script_exists, env.processes)
                        IN  /\ runner_results.overall_success = tested.overall_success
                            /\ runner_results.validation = tested.validation
                            /\ runner_results.testing = tested.conversions

\* A conversion that succeeds and is tested, with a valid file that no format
\* can be generated from: the file is written, conversion.success is true and
\* overall_success is false.
C18_Witness ==
    /\ Called("create_gestalt_workflow")
    /\ runner_env.world.outcome = "converted"
    /\ runner_env.test_conversion
    /\ runner_env.world.generated = "valid"
    /\ runner_env.world.importable
    /\ \A fmt \in Formats : runner_env.world.processes[fmt] = Completed(2, "", "usage")
    /\ runner_env.files = {<<"out", "/", "display", ".yml">>}
    /\ runner_results.conversion.success
    /\ runner_results.validation.valid
    /\ ~runner_results.overall_success

\* C19: validate_gestalt_file and run_gestalt_file return a pair whatever
\* happens, and a failure is (False, message).  An empty file gives "Empty YAML
\* file", a file that is not YAML gives "YAML parsing error: ...", a file that
\* is not there gives a message.  Without the gestalt script the message is
\* "Gestalt script not found at ..."; an exit code other than 0 gives
\* "Gestalt execution failed: " with the process's stderr, or its stdout when
\* stderr is empty; the result is (True, "Successfully generated <format>
\* output", " to <output_file>" when one is given) exactly when the script is
\* there and the process ended with exit code 0.
C19_FailuresAreReturned ==
    /\ Called("validate_gestalt_file") =>
          LET kind == runner_env.gestalt_file.kind
          IN  /\ IsPair(runner_results)
              /\ ~runner_results.ok => /\ runner_results.message /= None
                                        /\ runner_results.message.parts /= <<>>
              /\ kind = "empty" =>
                    runner_results = Return(FALSE, Message(<<"Empty YAML file">>))
              /\ kind = "unparsable" =>
                    /\ ~runner_results.ok
                    /\ MessageStarts(runner_results.message, "YAML parsing error: ")
              /\ kind = "missing" => ~runner_results.ok
    /\ Called("run_gestalt_file") =>
          LET env == runner_env
              zero == /\ env.script_exists
                      /\ "returncode" \in DOMAIN env.process
                      /\ env.process.returncode = 0
          IN  /\ IsPair(runner_results)
              /\ ~runner_results.ok => /\ runner_results.message /= None
                                        /\ runner_results.message.parts /= <<>>
              /\ ~env.script_exists =>
                    /\ ~runner_results.ok
                    /\ MessageStarts(runner_results.message, "Gestalt script not found at ")
              /\ (/\ env.script_exists
                  /\ "returncode" \in DOMAIN env.process
                  /\ env.process.returncode /= 0) =>
                    runner_results =
                        Return(FALSE,
                               Message(<<"Gestalt execution failed: ",
                                         IF env.process.stderr /= ""
                                         THEN env.process.stderr
                                         ELSE env.process.stdout>>))
              /\ runner_results.ok <=> zero
              /\ zero =>
                    /\ SubSeq(runner_results.message.parts, 1, 3)
                          = <<"Successfully generated ", env.output_format, " output">>
                    /\ env.output_file = None => Len(runner_results.message.parts) = 3
                    /\ env.output_file /= None =>
                          SubSeq(runner_results.message.parts, 4, 5)
                              = <<" to ", env.output_file.path>>

\* The gestalt script is there and ends with exit code 1 and a traceback on
\* stderr: the result is (False, "Gestalt execution failed: Traceback").
C19_Witness ==
    /\ Called("run_gestalt_file")
    /\ runner_env.script_exists
    /\ runner_env.process = Completed(1, "Traceback", "partial")
    /\ runner_results
          = Return(FALSE, Message(<<"Gestalt execution failed: ", "Traceback">>))

----------------------------------------------------------------------------
(* Claims about the points of polylines and polygons.                      *)

\* The points of the widget, each minus the x, y of the geometry the widget has
\* in the source.
RelativeToOwnOrigin(widget) ==
    [k \in 1..Len(widget.points) |->
        <<widget.points[k].x - widget.geometry.x, widget.points[k].y - widget.geometry.y>>]

\* C20: in every emitted Polyline or Polygon, at the top level or in a Group,
\* each point of the points line is the source point minus the x, y of the
\* widget's own geometry in the source.
C20_PointsRelativeToOwnOrigin ==
    Converted =>
        \A p \in WidgetBlocks(output) :
            output[p].tag \in {"Polyline", "Polygon"} =>
                \A q \in PropsOf(output, p, "points") :
                    output[q].val = RelativeToOwnOrigin(WidgetOf(medm, output, p))

----------------------------------------------------------------------------
(* Claims about the colors of shapes.                                      *)

\* C21: an emitted Polyline (symbol polyline or line) has no background line and
\* no foreground line, whatever its colors and contents; its color is a
\* border-color.
C21_LineLikeNeverFilled ==
    Converted =>
        \A p \in WidgetBlocks(output) :
            output[p].tag = "Polyline" =>
                /\ PropsOf(output, p, "background") = {}
                /\ PropsOf(output, p, "foreground") = {}
                /\ ColorTruthy(WidgetOf(medm, output, p).color)
                      => PropsOf(output, p, "border-color") /= {}

\* The basic attribute of the contents has the fill mode "outline".
IsOutlined(contents) ==
    /\ "basic attribute" \in DOMAIN contents
    /\ "fill" \in DOMAIN contents["basic attribute"]
    /\ contents["basic attribute"]["fill"] = "outline"

\* C22: an emitted Arc, Ellipse, Rectangle or Polygon with a foreground color has
\* no foreground line; it has border-color with that color, and background with
\* that color exactly when its fill mode is not "outline"; also when its
\* contents are empty.
C22_ClosedShapeFillAndBorder ==
    Converted =>
        \A p \in WidgetBlocks(output) :
            LET widget == WidgetOf(medm, output, p)
                ref == get_color_reference(Self, widget.color, medm.color_table)
            IN  (output[p].tag \in shapes /\ ColorTruthy(widget.color)) =>
                    /\ PropsOf(output, p, "foreground") = {}
                    /\ HasOnly(output, p, "border-color", ref)
                    /\ IF IsOutlined(widget.contents)
                       THEN PropsOf(output, p, "background") = {}
                       ELSE HasOnly(output, p, "background", ref)

----------------------------------------------------------------------------
(* Claims about the labels of navigation and command widgets.              *)

\* The label with one leading "-" removed.
OneDashRemoved(label) ==
    IF Len(label) >= 1 /\ label[1] = "-" THEN SubSeq(label, 2, Len(label)) ELSE label

\* The linked targets of a related display or shell command.
TargetsOf(widget) ==
    IF "displays" \in DOMAIN widget THEN widget.displays
    ELSE IF "commands" \in DOMAIN widget THEN widget.commands
    ELSE <<>>

\* The positions of the link or command records of the block, in their order.
ItemsOf(lines, p) ==
    { q \in (p + 1)..(BlockEnd(lines, p) - 1) : lines[q].kind = "item" }

\* The position of the k-th record of the block.
ItemAt(lines, p, k) ==
    CHOOSE q \in ItemsOf(lines, p) :
        Cardinality({ r \in ItemsOf(lines, p) : r <= q }) = k

NavigationBlocks(lines) ==
    { p \in WidgetBlocks(lines) : lines[p].tag \in {"RelatedDisplay", "ShellCommand"} }

\* C23: in every emitted RelatedDisplay and ShellCommand, the button text is the
\* label of the contents with one leading "-" removed, and the label of the
\* record of every target that has a label is that label with one leading "-"
\* removed.
C23_LeadingDashStripped ==
    Converted =>
        \A p \in NavigationBlocks(output) :
            LET widget == WidgetOf(medm, output, p)
                targets == TargetsOf(widget)
            IN  /\ \A q \in PropsOf(output, p, "text") :
                      output[q].val = <<OneDashRemoved(widget.contents["label"])>>
                /\ ItemsOf(output, p) /= {} =>
                      \A k \in DOMAIN targets :
                          "label" \in DOMAIN targets[k] =>
                              output[ItemAt(output, p, k)].label
                                  = OneDashRemoved(targets[k]["label"])

\* C24: every emitted RelatedDisplay and ShellCommand with at least one target
\* has one text line: the label of the contents when there is one, else the
\* label or the name of the first target (in both cases with or without its
\* leading "-").
C24_ButtonLabelAlways ==
    Converted =>
        \A p \in NavigationBlocks(output) :
            LET widget == WidgetOf(medm, output, p)
                targets == TargetsOf(widget)
                first == targets[1]
                source == IF "label" \in DOMAIN widget.contents
                          THEN {widget.contents["label"]}
                          ELSE { first[key] : key \in DOMAIN first \cap {"label", "name"} }
            IN  targets /= <<>> =>
                    /\ Cardinality(PropsOf(output, p, "text")) = 1
                    /\ \A q \in PropsOf(output, p, "text") :
                          \E label \in source :
                              output[q].val \in {<<label>>, <<OneDashRemoved(label)>>}

----------------------------------------------------------------------------
(* Claims about formats and alignments.                                    *)

\* The format names the enumeration has a target name for.
EnumeratedFormats ==
    {"decimal", "exponential", "engr. notation", "compact", "hexadecimal", "octal",
     "string", "binary"}

\* The target names of the formats other than octal.
TargetFormat ==
    [f \in EnumeratedFormats \ {"octal"} |->
        CASE f = "decimal" -> "Decimal"
          [] f = "exponential" -> "Exponential"
          [] f = "engr. notation" -> "Engineering"
          [] f = "compact" -> "Compact"
          [] f = "hexadecimal" -> "Hexadecimal"
          [] f = "string" -> "String"
          [] f = "binary" -> "Binary"]

TargetAlign ==
    [a \in {"horiz. left", "horiz. centered", "horiz. right"} |->
        CASE a = "horiz. left" -> "Left"
          [] a = "horiz. centered" -> "Center"
          [] a = "horiz. right" -> "Right"]

\* C25: an emitted TextEntry or TextMonitor with a format has one format line:
\* the target name of the format when the format is of the enumeration, a name
\* of its own for octal (none of the names of the other formats), and Decimal
\* for any other value; with an alignment it has one alignment line: Left,
\* Center, Right for horiz. left, centered, right and Left for any other value.
C25_FormatsAndAlignments ==
    Converted =>
        \A p \in WidgetBlocks(output) :
            LET contents == WidgetOf(medm, output, p).contents
            IN  output[p].tag \in {"TextEntry", "TextMonitor"} =>
                    /\ "format" \in DOMAIN contents =>
                          /\ Cardinality(PropsOf(output, p, "format")) = 1
                          /\ \A q \in PropsOf(output, p, "format") :
                                IF contents["format"] \in DOMAIN TargetFormat
                                THEN output[q].val = <<TargetFormat[contents["format"]]>>
                                ELSE IF contents["format"] \in EnumeratedFormats
                                THEN \A f \in DOMAIN TargetFormat :
                                        output[q].val /= <<TargetFormat[f]>>
                                ELSE output[q].val = <<"Decimal">>
                    /\ "align" \in DOMAIN contents =>
                          HasOnly(output, p, "alignment",
                                  <<IF contents["align"] \in DOMAIN TargetAlign
                                    THEN TargetAlign[contents["align"]] ELSE "Left">>)

----------------------------------------------------------------------------
(* Claims about visibility bound to a channel.                             *)

\* The visibility mode of contents that have a mode and channel A, else "<none>".
ModeOf(contents) ==
    IF /\ "dynamic attribute" \in DOMAIN contents
       /\ "vis" \in DOMAIN contents["dynamic attribute"]
       /\ "chan" \in DOMAIN contents["dynamic attribute"]
    THEN contents["dynamic attribute"]["vis"]
    ELSE "<none>"

\* C26: a call of convert_display gives every emitted widget whose dynamic
\* attribute has a visibility mode and channel A exactly one visibility line
\* bound to the channel for "if not zero", exactly one visibility line with
\* !Not on the channel for "if zero", and no visibility line for "static"; and
\* when no emitted widget has another mode, the call leaves the node counter
\* and the computed-visibility nodes as they were.
C26_DirectVisibility ==
    [][ConvertStep =>
          /\ \A p \in WidgetBlocks(output') :
                LET contents == WidgetOf(medm', output', p).contents
                    chan == contents["dynamic attribute"]["chan"]
                IN  /\ ModeOf(contents) = "if not zero" =>
                          HasOnly(output', p, "visibility", [tag |-> "", pv |-> <<chan>>])
                    /\ ModeOf(contents) = "if zero" =>
                          HasOnly(output', p, "visibility", [tag |-> "!Not", pv |-> <<chan>>])
                    /\ ModeOf(contents) = "static" => PropsOf(output', p, "visibility") = {}
          /\ (\A p \in WidgetBlocks(output') :
                  ModeOf(WidgetOf(medm', output', p).contents)
                      \in {"if not zero", "if zero", "static", "<none>"})
                => /\ calc_node_counter' = calc_node_counter
                   /\ calc_nodes' = calc_nodes
                   /\ has_calc_nodes' = has_calc_nodes]_vars

\* A converter that has minted a node for an earlier document has lowered
\* a widget that is visible "if zero" of pvA: one visibility line with !Not, and
\* no computed-visibility line in the widget.
C26_Witness ==
    /\ Converted
    /\ medm.given_filename.name = "vis.adl"
    /\ ModeOf(medm.widgets[1].contents) = "if zero"
    /\ calc_node_counter = 1
    /\ \E p \in WidgetBlocks(output) :
          HasOnly(output, p, "visibility", [tag |-> "!Not", pv |-> <<"pvA">>])

----------------------------------------------------------------------------
(* Claims about the children of a Group and the canvas.                    *)

\* C27: a direct child (of a known symbol) of an emitted top-level Group whose
\* children are lowered is omitted exactly when its geometry in the source, in
\* the coordinates of the display, lies outside the canvas: x+w < 0 or y+h < 0
\* or x > W or y > H, wherever the Group is.
C27_ChildOmittedByAbsolutePosition ==
    Converted =>
        \A i \in 0..(Len(medm.widgets) - 1) :
            LET widget == medm.widgets[i + 1]
            IN  (/\ widget.geometry /= None
                 /\ widget.symbol \in DOMAIN WIDGET_TYPE_MAP
                 /\ WIDGET_TYPE_MAP[widget.symbol] = "Group"
                 /\ DOMAIN widget.contents /= {}
                 /\ TopLevelEmitted(output, i)) =>
                    \A j \in 0..(Len(widget.widgets) - 1) :
                        LET child == widget.widgets[j + 1]
                            c == child.geometry
                        IN  (c /= None /\ child.symbol \in DOMAIN WIDGET_TYPE_MAP) =>
                                (~ChildEmitted(output, i, j)
                                    <=> OutsideCanvas(c.x, c.y, c.width, c.height,
                                                      CanvasWidth(medm), CanvasHeight(medm)))

----------------------------------------------------------------------------
(* Claims about the keys of a block.                                       *)

\* The keys that a block is to have once at most.
SingleKeys ==
    {"geometry", "foreground", "background", "border-color", "pv", "text", "visibility",
     "horizontal"}

\* C28: no emitted widget block has one of the keys geometry, foreground,
\* background, border-color, pv, text, visibility, horizontal more than once
\* among its own lines.
C28_NoKeyTwice ==
    Converted =>
        \A p \in WidgetBlocks(output) :
            \A key \in SingleKeys : Cardinality(PropsOf(output, p, key)) <= 1

----------------------------------------------------------------------------
(* Claims about the relational operators.                                  *)

RECURSIVE EqualityRewritten(_, _)
\* The expression from position i on, with "==" for every "=" that does not
\* follow ">" or "<", and everything else as it is.
EqualityRewritten(s, i) ==
    IF i > Len(s) THEN <<>>
    ELSE (IF s[i] = "=" /\ ~(i > 1 /\ s[i - 1] \in {">", "<"})
          THEN <<"=", "=">> ELSE <<s[i]>>)
         \o EqualityRewritten(s, i + 1)

\* C29: an expression of operands, >=, <=, >, < and = (no = next to another =)
\* compiles to itself with == for each stand-alone =: >=, <=, > and < are
\* unchanged.
C29_RelationalOperatorsUnchanged ==
    (/\ Compiled
     /\ medm_expression \in RelationalExprs
     /\ ~Contains(medm_expression, <<"=", "=">>)) =>
        python_expr = EqualityRewritten(medm_expression, 1)

----------------------------------------------------------------------------
(* Claims about colors given by index.                                     *)

\* The color is an index of the table.
IsValidIndex(color, color_table) ==
    "index" \in DOMAIN color /\ color.index \in TableIndices(color_table)

\* The block at p has the key once, with the token of the color, when the
\* color is an index of the table.
IndexEmitted(lines, p, key, color, color_table) ==
    IsValidIndex(color, color_table) =>
        HasOnly(lines, p, key, get_color_reference(Self, color, color_table))

\* C30: the root container, and every emitted widget that is neither a closed
\* shape nor a Polyline, has the foreground line and the background line with
\* the token of the index when its foreground or background color is a valid
\* index of the color table, index 0 included.
C30_IndexZeroEmitted ==
    Converted =>
        LET table == medm.color_table
        IN  /\ IndexEmitted(output, FormBlock(output), "foreground", medm.color, table)
            /\ IndexEmitted(output, FormBlock(output), "background", medm.background_color,
                            table)
            /\ \A p \in WidgetBlocks(output) :
                  output[p].tag \notin shapes \cup {"Polyline"} =>
                      /\ IndexEmitted(output, p, "foreground",
                                      WidgetOf(medm, output, p).color, table)
                      /\ IndexEmitted(output, p, "background",
                                      WidgetOf(medm, output, p).background_color, table)

====
